---- MODULE Spec2Model ----
(***************************************************************************)
(* Verification model of svg_to_png_live.                                  *)
(*                                                                         *)
(* Part I  : ClipboardWatcher + AppController (clipboard/watcher.py,       *)
(*           app.py): the UI-thread event handlers, the debounce timer,    *)
(*           the one-thread pool and the queued worker signals.            *)
(* Part II : SvgToPngConverter.convert (convert/renderer.py): settings     *)
(*           snapshot, cache lookup, size-fit loop, cache store.           *)
(* Part III: LruCache, normalize_svg_markup, the size functions and the    *)
(*           PNG header parser, each applied on its own to bounded inputs. *)
(* Part IV : the clipboard write of a result (clipboard/win_clipboard.py,  *)
(*           AppController._write_png_to_clipboard), step by step.         *)
(***************************************************************************)
EXTENDS Integers, Sequences, FiniteSets, TLC

VARIABLES
    \* ---- ClipboardWatcher fields (watcher.py 70-77) ----
    running,              \* _running
    subscriptions,        \* number of dataChanged -> _on_clipboard_changed connections
    pending_svg,          \* _pending_svg (None or normalized text)
    last_processed_hash,  \* _last_processed_hash (None or hash)
    ignore_until,         \* _ignore_until (monotonic clock ticks)
    in_flight,            \* _in_flight
    rerun_after_flight,   \* _rerun_after_flight
    debounce,             \* QTimer _debounce: "off", "interval" (debounce_ms) or "zero" (start(0))
    converter,            \* _converter: "none", or what AppController._init_converter installs
    \* ---- environment of the watcher ----
    clipboard,            \* system clipboard content (what mimeData() returns)
    notifs,               \* dataChanged notifications not yet delivered, with their cause
    now,                  \* time.monotonic(), in ticks
    poolQueue,            \* QThreadPool: runnables accepted by start() and not yet running
    poolActive,           \* QThreadPool: runnables executing on a pool thread
    completions,          \* queued finished/failed signal emissions not yet delivered
    next_id,              \* number of jobs dispatched so far + 1 (history)
    emitted,              \* job ids of the converted/error signals emitted, in order (history)
    last,                 \* which handler ran last and whether it acted (history)
    \* ---- SvgToPngConverter / ResvgRenderer fields (renderer.py 158-162, 265-273) ----
    cfg,                  \* SvgToPngConverter._cfg
    cache,                \* SvgToPngConverter._cache (an LruCache, or off for None)
    caps,                 \* ResvgRenderer._caps ("unprobed" for None)
    sc,                   \* set_config in progress on the UI thread: "idle" or "rebuild"
    cv,                   \* the convert() call in progress on the pool thread: its locals
    calls,                \* number of convert() calls started (history)
    \* ---- functions and objects exercised on their own ----
    fcall,                \* the last application: function name, arguments, returned value
    accessed,             \* keys of the cache exercised on its own, least recently accessed first (history)
    \* ---- the native clipboard write (win_clipboard.py, app.py 165-204) ----
    wc,                   \* the _write_png_to_clipboard / set_windows_clipboard_png call: its locals
    nclip,                \* formats the system clipboard holds, in the order they were set
    \* ---- threads calling ResvgRenderer.render_svg_to_png_bytes (renderer.py 164-198) ----
    pr,                   \* _caps_lock, each thread's position and local caps, probes run (history)
    \* ---- atomic_write_bytes (export/saver.py 22-34) ----
    aw,                   \* the call: its position, data, and what failed (history)
    fs,                   \* the target directory: content of path and of tmp_path
    \* ---- history of the debounce timer of Part I ----
    burst                 \* accepted changes of the current or latest burst: since the timer was last idle

wvars == <<running, subscriptions, pending_svg, last_processed_hash, ignore_until,
           in_flight, rerun_after_flight, debounce, converter, clipboard, notifs, now,
           poolQueue, poolActive, completions, next_id, emitted, last>>

cvars == <<cfg, cache, caps, sc, cv, calls>>

\* variables of the parts that are exercised on their own, outside Parts I-III
xvars == <<wc, nclip, pr, aw, fs, burst>>

pvars == <<fcall, accessed, xvars>>

vars == <<wvars, cvars, pvars>>

\* Python None, for the optional texts and hashes (never a value normalize or sha256 returns)
None == <<>>

(***************************************************************************)
(* Bounds of the model.                                                    *)
(***************************************************************************)
MaxJobs   == 2    \* jobs dispatched in one behaviour
MaxNotifs == 2    \* undelivered dataChanged notifications
MaxNow    == 1    \* clock ticks
MaxCalls  == 2    \* convert() calls in one behaviour
MaxItems  == 2    \* largest capacity of the LruCache exercised on its own
MaxTextLen == 3   \* tokens in the texts given to normalize_svg_markup on its own
MaxAttrs  == 3    \* attributes in the root tags given to the size functions on their own
MaxOpenRetries == 2  \* largest open_retries a direct caller passes to set_windows_clipboard_png
MaxBurst  == 2    \* accepted changes counted in one burst
MaxRenders == 4   \* render_svg_to_png_bytes calls by the racing threads in one behaviour

(***************************************************************************)
(* Program constants.                                                      *)
(***************************************************************************)
\* (variant: a pool of two threads)
MaxThreadCountTwo == 1 + 1
\* QThreadPool.setMaxThreadCount(1)
MaxThreadCount == 1
\* suppress_events_for(0.5) in AppController._write_png_to_clipboard; one tick is 0.5 s
SuppressTicks == 1
\* AppConfig.max_svg_chars, in tokens of the modelled texts
max_svg_chars == 5

Min2(a, b) == IF a < b THEN a ELSE b
Max2(a, b) == IF a > b THEN a ELSE b

(***************************************************************************)
(* Clipboard texts are sequences of tokens.  "<svg" and "<SVG" are the     *)
(* tokens _SVG_OPEN_RE matches, "</svg>" and "</SVG >" those _SVG_CLOSE_RE *)
(* matches; "sp" is whitespace; the others are ordinary text.              *)
(***************************************************************************)
OpenTokens  == {"<svg", "<SVG"}
CloseTokens == {"</svg>", "</SVG >"}

SetMin(S) == CHOOSE x \in S : \A y \in S : x <= y
SetMax(S) == CHOOSE x \in S : \A y \in S : x >= y

\* str.strip() on a token sequence
RECURSIVE LStrip(_)
LStrip(t) == IF t # <<>> /\ Head(t) = "sp" THEN LStrip(Tail(t)) ELSE t
RECURSIVE RStrip(_)
RStrip(t) == IF t # <<>> /\ t[Len(t)] = "sp" THEN RStrip(SubSeq(t, 1, Len(t) - 1)) ELSE t
Strip(t) == RStrip(LStrip(t))

\* looks_like_svg_text
looks_like_svg_text(t) ==
    /\ t # <<>>
    /\ \E i \in 1..Len(t) : t[i] \in OpenTokens
    /\ \E i \in 1..Len(t) : t[i] \in CloseTokens

\* (variant: the text up to the first close tag)
normalize_svg_markup_FirstClose(t) ==
    IF ~looks_like_svg_text(t) THEN None
    ELSE LET start == SetMin({i \in 1..Len(t) : t[i] \in OpenTokens})
             end   == SetMin({i \in 1..Len(t) : t[i] \in CloseTokens})
             svg   == Strip(SubSeq(t, start, end))
         IN IF svg = <<>> THEN None ELSE svg

\* normalize_svg_markup: first open tag through last close tag, stripped; None otherwise
normalize_svg_markup(t) ==
    IF ~looks_like_svg_text(t) THEN None
    ELSE LET start == SetMin({i \in 1..Len(t) : t[i] \in OpenTokens})
             end   == SetMax({i \in 1..Len(t) : t[i] \in CloseTokens})
             svg   == Strip(SubSeq(t, start, end))
         IN IF svg = <<>> THEN None ELSE svg

\* hashlib.sha256(text.encode("utf-8")).hexdigest(): an injective digest of the text
Sha256(t) == <<"sha256", t>>

(***************************************************************************)
(* What the user can put on the clipboard.                                 *)
(***************************************************************************)
TextA    == <<"<svg", "a", "</svg>">>
TextAp   == <<"x", "<svg", "a", "</svg>", "sp">>        \* normalizes to TextA
TextBig  == <<"x", "<SVG", "a", "</SVG >", "sp", "x">>  \* longer than max_svg_chars
TextB    == <<"<svg", "b", "</svg>">>
TextNo   == <<"x", "</svg>", "<svg">>                   \* close before open: not SVG

UserTexts == {TextA, TextAp, TextBig, TextB, TextNo}

MimeText(t)  == [kind |-> "text",  text |-> t,    by |-> "user"]
UserImage    == [kind |-> "image", text |-> <<>>, by |-> "user"]
EmptyMime    == [kind |-> "empty", text |-> <<>>, by |-> "user"]
\* what AppController._write_png_to_clipboard leaves on the clipboard: PNG (+DIB), no text
AppImage     == [kind |-> "image", text |-> <<>>, by |-> "app"]

UserClips == {MimeText(t) : t \in UserTexts} \cup {UserImage, EmptyMime}

hasImage(m) == m.kind = "image"
hasText(m)  == m.kind = "text"

(***************************************************************************)
(* Part I.  ClipboardWatcher and AppController.                            *)
(***************************************************************************)
Job(id, text) == [id |-> id, text |-> text]

InitWatcher ==
    /\ running = FALSE
    /\ subscriptions = 0
    /\ pending_svg = None
    /\ last_processed_hash = None
    /\ ignore_until = 0
    /\ in_flight = FALSE
    /\ rerun_after_flight = FALSE
    /\ debounce = "off"
    /\ converter \in {"convert", "missing"}
    /\ clipboard = EmptyMime
    /\ notifs = <<>>
    /\ now = 0
    /\ poolQueue = <<>>
    /\ poolActive = {}
    /\ completions = <<>>
    /\ next_id = 1
    /\ emitted = <<>>
    /\ last = "init"

\* ---- environment steps ----

\* The user (or another program) replaces the clipboard content; the OS posts dataChanged.
UserCopy(c) ==
    /\ Len(notifs) < MaxNotifs
    /\ clipboard' = c
    /\ notifs' = Append(notifs, "user")
    /\ UNCHANGED <<running, subscriptions, pending_svg, last_processed_hash, ignore_until,
                   in_flight, rerun_after_flight, debounce, converter, now, poolQueue,
                   poolActive, completions, next_id, emitted, last>>
    /\ UNCHANGED cvars
    /\ UNCHANGED pvars

\* time.monotonic() advances.
Tick ==
    /\ now < MaxNow
    /\ now' = now + 1
    /\ UNCHANGED <<running, subscriptions, pending_svg, last_processed_hash, ignore_until,
                   in_flight, rerun_after_flight, debounce, converter, clipboard, notifs,
                   poolQueue, poolActive, completions, next_id, emitted, last>>
    /\ UNCHANGED cvars
    /\ UNCHANGED pvars

\* (variant: a start() that connects the slot again when already Listening)
start_Resubscribes ==
    /\ running' = TRUE
    /\ subscriptions' = subscriptions + 1
    /\ subscriptions < MaxThreadCountTwo
    /\ UNCHANGED <<last, pending_svg, last_processed_hash, ignore_until, in_flight,
                   rerun_after_flight, debounce, converter, clipboard, notifs, now,
                   poolQueue, poolActive, completions, next_id, emitted>>
    /\ UNCHANGED cvars
    /\ UNCHANGED pvars

\* ---- ClipboardWatcher.start / stop (called from AppController._on_listen_toggled) ----
start ==
    /\ IF running
       THEN UNCHANGED <<running, subscriptions>>
       ELSE /\ running' = TRUE
            /\ subscriptions' = subscriptions + 1
    /\ UNCHANGED <<last, pending_svg, last_processed_hash, ignore_until, in_flight,
                   rerun_after_flight, debounce, converter, clipboard, notifs, now,
                   poolQueue, poolActive, completions, next_id, emitted>>
    /\ UNCHANGED cvars
    /\ UNCHANGED pvars

\* (variant: a stop() that keeps the pending text and the timer)
stop_KeepsPending ==
    /\ IF ~running
       THEN UNCHANGED <<running, subscriptions, in_flight>>
       ELSE /\ running' = FALSE
            /\ subscriptions' = Max2(0, subscriptions - 1)
            /\ in_flight' = FALSE
    /\ UNCHANGED <<last, pending_svg, debounce, last_processed_hash, ignore_until,
                   rerun_after_flight, converter, clipboard, notifs, now, poolQueue,
                   poolActive, completions, next_id, emitted>>
    /\ UNCHANGED cvars
    /\ UNCHANGED pvars

\* ---- ClipboardWatcher.stop ----
stop ==
    /\ IF ~running
       THEN UNCHANGED <<running, subscriptions, pending_svg, debounce, in_flight>>
       ELSE /\ running' = FALSE
            /\ subscriptions' = Max2(0, subscriptions - 1)
            /\ pending_svg' = None
            /\ debounce' = "off"
            /\ in_flight' = FALSE
    /\ UNCHANGED <<last, last_processed_hash, ignore_until, rerun_after_flight, converter,
                   clipboard, notifs, now, poolQueue, poolActive, completions, next_id,
                   emitted>>
    /\ UNCHANGED cvars
    /\ UNCHANGED pvars

\* (variant: the handler without its max_svg_chars guard)
ClipboardChangedOutcome_NoLengthGuard ==
    IF ~running THEN "notif_stopped"
    ELSE IF now < ignore_until THEN "notif_suppressed"
    ELSE IF hasImage(clipboard) THEN "notif_image"
    ELSE IF ~hasText(clipboard) THEN "notif_notext"
    ELSE IF clipboard.text = <<>> THEN "notif_notext"
    ELSE IF normalize_svg_markup(clipboard.text) = None THEN "notif_notsvg"
    ELSE "notif_accept"

\* ---- ClipboardWatcher._on_clipboard_changed ----
\* The reason the handler ignores the notification, or "accept".
ClipboardChangedOutcome ==
    IF ~running THEN "notif_stopped"
    ELSE IF now < ignore_until THEN "notif_suppressed"
    ELSE IF hasImage(clipboard) THEN "notif_image"
    ELSE IF ~hasText(clipboard) THEN "notif_notext"
    ELSE IF clipboard.text = <<>> THEN "notif_notext"
    ELSE IF Len(clipboard.text) > max_svg_chars THEN "notif_toolarge"
    ELSE IF normalize_svg_markup(clipboard.text) = None THEN "notif_notsvg"
    ELSE "notif_accept"

\* Delivery of one dataChanged notification to the connected slot(s).
on_clipboard_changed ==
    /\ notifs # <<>>
    /\ notifs' = Tail(notifs)
    /\ IF subscriptions = 0
       THEN /\ last' = "notif_unconnected"
            /\ UNCHANGED <<pending_svg, debounce>>
       ELSE IF ClipboardChangedOutcome = "notif_accept"
            THEN /\ pending_svg' = normalize_svg_markup(clipboard.text)
                 /\ debounce' = "interval"
                 /\ last' = "notif_accept"
            ELSE /\ UNCHANGED <<pending_svg, debounce>>
                 /\ last' = "notif_ignored"
    /\ UNCHANGED <<running, subscriptions, last_processed_hash, ignore_until, in_flight,
                   rerun_after_flight, converter, clipboard, now, poolQueue, poolActive,
                   completions, next_id, emitted>>
    /\ UNCHANGED cvars
    /\ burst' = IF subscriptions # 0 /\ ClipboardChangedOutcome = "notif_accept"
                THEN (IF debounce = "off" THEN 1 ELSE Min2(burst + 1, MaxBurst))
                ELSE burst
    /\ UNCHANGED <<fcall, accessed, wc, nclip, pr, aw, fs>>

\* ---- ClipboardWatcher._on_debounce_timeout ----
\* (variant: the handler without its comparison of the clipboard against the pending text)
DebounceOutcomeNoPendingCheck ==
    IF ~running THEN "deb_stopped"
    ELSE IF pending_svg = None THEN "deb_nopending"
    ELSE IF in_flight THEN "deb_rerunflag"
    ELSE IF ~hasText(clipboard) THEN "deb_notext"
    ELSE IF normalize_svg_markup(clipboard.text) = None THEN "deb_mismatch"
    ELSE IF Sha256(normalize_svg_markup(clipboard.text)) = last_processed_hash
         THEN "deb_duplicate"
    ELSE IF converter = "none" THEN "deb_noconverter"
    ELSE "deb_dispatch"

\* (variant: the handler without its comparison against the last processed hash)
DebounceOutcomeNoHashCheck ==
    IF ~running THEN "deb_stopped"
    ELSE IF pending_svg = None THEN "deb_nopending"
    ELSE IF in_flight THEN "deb_rerunflag"
    ELSE IF ~hasText(clipboard) THEN "deb_notext"
    ELSE IF normalize_svg_markup(clipboard.text) = None THEN "deb_mismatch"
    ELSE IF normalize_svg_markup(clipboard.text) # pending_svg THEN "deb_mismatch"
    ELSE IF converter = "none" THEN "deb_noconverter"
    ELSE "deb_dispatch"

\* (variant: a handler that reports a clipboard that no longer matches as an error)
DebounceOutcomeMismatchIsError ==
    IF ~running THEN "deb_stopped"
    ELSE IF pending_svg = None THEN "deb_nopending"
    ELSE IF in_flight THEN "deb_rerunflag"
    ELSE IF ~hasText(clipboard) THEN "deb_notext"
    ELSE IF normalize_svg_markup(clipboard.text) = None THEN "deb_mismatch"
    ELSE IF normalize_svg_markup(clipboard.text) # pending_svg THEN "deb_noconverter"
    ELSE IF Sha256(normalize_svg_markup(clipboard.text)) = last_processed_hash
         THEN "deb_duplicate"
    ELSE IF converter = "none" THEN "deb_noconverter"
    ELSE "deb_dispatch"

\* What the timeout handler decides, in the order of its early returns.
DebounceOutcome ==
    IF ~running THEN "deb_stopped"
    ELSE IF pending_svg = None THEN "deb_nopending"
    ELSE IF in_flight THEN "deb_rerunflag"
    ELSE IF ~hasText(clipboard) THEN "deb_notext"
    ELSE IF normalize_svg_markup(clipboard.text) = None THEN "deb_mismatch"
    ELSE IF normalize_svg_markup(clipboard.text) # pending_svg THEN "deb_mismatch"
    ELSE IF Sha256(normalize_svg_markup(clipboard.text)) = last_processed_hash
         THEN "deb_duplicate"
    ELSE IF converter = "none" THEN "deb_noconverter"
    ELSE "deb_dispatch"

\* The single-shot timer fires and the handler runs.
on_debounce_timeout ==
    /\ debounce # "off"
    /\ next_id <= MaxJobs
    /\ debounce' = "off"
    /\ last' = IF DebounceOutcome \in {"deb_rerunflag", "deb_dispatch", "deb_noconverter"}
               THEN DebounceOutcome ELSE "deb_return"
    /\ rerun_after_flight' =
           IF DebounceOutcome = "deb_rerunflag" THEN TRUE ELSE rerun_after_flight
    /\ IF DebounceOutcome = "deb_dispatch"
       THEN /\ in_flight' = TRUE
            /\ poolQueue' = Append(poolQueue,
                                   Job(next_id, normalize_svg_markup(clipboard.text)))
            /\ next_id' = next_id + 1
       ELSE UNCHANGED <<in_flight, poolQueue, next_id>>
    /\ emitted' = IF DebounceOutcome = "deb_noconverter"
                  THEN Append(emitted, 0)
                  ELSE emitted
    /\ UNCHANGED <<running, subscriptions, pending_svg, last_processed_hash, ignore_until,
                   converter, clipboard, notifs, now, poolActive, completions>>
    /\ UNCHANGED cvars
    /\ UNCHANGED pvars

\* ---- QThreadPool with MaxThreadCount threads: a free thread takes the oldest runnable ----
PoolTake ==
    /\ poolQueue # <<>>
    /\ Cardinality(poolActive) < MaxThreadCount
    /\ poolActive' = poolActive \cup {Head(poolQueue)}
    /\ poolQueue' = Tail(poolQueue)
    /\ UNCHANGED <<running, subscriptions, pending_svg, last_processed_hash, ignore_until,
                   in_flight, rerun_after_flight, debounce, converter, clipboard, notifs,
                   now, completions, next_id, emitted, last>>
    /\ UNCHANGED cvars
    /\ UNCHANGED pvars

\* ---- _ConvertWorker.run on a pool thread ----
\* The converter installed when resvg is missing raises on every call; convert() returns a
\* result carrying the hash of the text it was given, or raises.
WorkerOutcomes(j) ==
    IF converter = "missing"
    THEN {[kind |-> "failed", id |-> j.id, svg_hash |-> None]}
    ELSE {[kind |-> "finished", id |-> j.id, svg_hash |-> Sha256(j.text)],
          [kind |-> "failed", id |-> j.id, svg_hash |-> None]}

\* (variant: a run() whose failure path also runs after the success path)
WorkerRun_EmitsBoth(j) ==
    /\ j \in poolActive
    /\ poolActive' = poolActive \ {j}
    /\ \E r \in WorkerOutcomes(j) :
           completions' = Append(Append(completions, r),
                                 [kind |-> "failed", id |-> j.id, svg_hash |-> None])
    /\ UNCHANGED <<running, subscriptions, pending_svg, last_processed_hash, ignore_until,
                   in_flight, rerun_after_flight, debounce, converter, clipboard, notifs,
                   now, poolQueue, next_id, emitted, last>>
    /\ UNCHANGED cvars
    /\ UNCHANGED pvars

\* run() ends by emitting exactly one signal, which is queued to the watcher's thread.
WorkerRun(j) ==
    /\ j \in poolActive
    /\ poolActive' = poolActive \ {j}
    /\ \E r \in WorkerOutcomes(j) : completions' = Append(completions, r)
    /\ UNCHANGED <<running, subscriptions, pending_svg, last_processed_hash, ignore_until,
                   in_flight, rerun_after_flight, debounce, converter, clipboard, notifs,
                   now, poolQueue, next_id, emitted, last>>
    /\ UNCHANGED cvars
    /\ UNCHANGED pvars

\* ---- ClipboardWatcher._maybe_rerun_latest ----
RerunFlagAfter == FALSE
\* (variant: a completion that re-arms the timer whether or not the rerun flag is set)
DebounceAfterRerunAlways == IF running THEN "zero" ELSE debounce
DebounceAfterRerun == IF running /\ rerun_after_flight THEN "zero" ELSE debounce

\* (variant: the write without the preceding suppress_events_for call)
SuppressUntilNotArmed == ignore_until

\* ---- AppController._write_png_to_clipboard: suppress_events_for(0.5), then the write ----
SuppressUntil == Max2(ignore_until, now + SuppressTicks)

\* ---- ClipboardWatcher._on_worker_finished (+ AppController._on_converted, connected
\*      directly to the converted signal) ----
on_worker_finished ==
    /\ completions # <<>>
    /\ Head(completions).kind = "finished"
    /\ Len(notifs) < MaxNotifs
    /\ completions' = Tail(completions)
    /\ in_flight' = FALSE
    /\ last_processed_hash' = Head(completions).svg_hash
    /\ emitted' = Append(emitted, Head(completions).id)
    /\ ignore_until' = SuppressUntil
    /\ clipboard' = AppImage
    /\ notifs' = Append(notifs, "app")
    /\ rerun_after_flight' = RerunFlagAfter
    /\ debounce' = DebounceAfterRerun
    /\ last' = "finished"
    /\ UNCHANGED <<running, subscriptions, pending_svg, converter, now, poolQueue,
                   poolActive, next_id>>
    /\ UNCHANGED cvars
    /\ UNCHANGED pvars

\* (variant: a failure handler that leaves the in-flight flag set)
on_worker_failed_KeepsInFlight ==
    /\ completions # <<>>
    /\ Head(completions).kind = "failed"
    /\ completions' = Tail(completions)
    /\ emitted' = Append(emitted, Head(completions).id)
    /\ rerun_after_flight' = RerunFlagAfter
    /\ debounce' = DebounceAfterRerun
    /\ last' = "failed"
    /\ UNCHANGED <<running, subscriptions, pending_svg, last_processed_hash, ignore_until,
                   in_flight, converter, clipboard, notifs, now, poolQueue, poolActive,
                   next_id>>
    /\ UNCHANGED cvars
    /\ UNCHANGED pvars

\* (variant: a failure handler that records the pending text as processed)
on_worker_failed_RecordsHash ==
    /\ completions # <<>>
    /\ Head(completions).kind = "failed"
    /\ completions' = Tail(completions)
    /\ in_flight' = FALSE
    /\ last_processed_hash' = IF pending_svg = None THEN last_processed_hash
                              ELSE Sha256(pending_svg)
    /\ emitted' = Append(emitted, Head(completions).id)
    /\ rerun_after_flight' = RerunFlagAfter
    /\ debounce' = DebounceAfterRerun
    /\ last' = "failed"
    /\ UNCHANGED <<running, subscriptions, pending_svg, ignore_until,
                   converter, clipboard, notifs, now, poolQueue, poolActive, next_id>>
    /\ UNCHANGED cvars
    /\ UNCHANGED pvars

\* ---- ClipboardWatcher._on_worker_failed ----
on_worker_failed ==
    /\ completions # <<>>
    /\ Head(completions).kind = "failed"
    /\ completions' = Tail(completions)
    /\ in_flight' = FALSE
    /\ emitted' = Append(emitted, Head(completions).id)
    /\ rerun_after_flight' = RerunFlagAfter
    /\ debounce' = DebounceAfterRerun
    /\ last' = "failed"
    /\ UNCHANGED <<running, subscriptions, pending_svg, last_processed_hash, ignore_until,
                   converter, clipboard, notifs, now, poolQueue, poolActive, next_id>>
    /\ UNCHANGED cvars
    /\ UNCHANGED pvars

\* ---- ClipboardWatcher.set_config: the new interval is given to the timer, which keeps
\*      running if it was (a timer re-armed with zero delay waits the interval again) ----
ClipboardWatcher_set_config ==
    /\ debounce' = IF running /\ debounce = "zero" THEN "interval" ELSE debounce
    /\ UNCHANGED <<running, subscriptions, pending_svg, last_processed_hash, ignore_until,
                   in_flight, rerun_after_flight, converter, clipboard, notifs, now,
                   poolQueue, poolActive, completions, next_id, emitted, last>>
    /\ UNCHANGED cvars
    /\ UNCHANGED pvars

NextWatcher ==
    \/ \E c \in UserClips : UserCopy(c)
    \/ Tick
    \/ start
    \/ stop
    \/ ClipboardWatcher_set_config
    \/ on_clipboard_changed
    \/ on_debounce_timeout
    \/ PoolTake
    \/ \E j \in poolActive : WorkerRun(j)
    \/ on_worker_finished
    \/ on_worker_failed

(***************************************************************************)
(* Part II.  SvgToPngConverter.convert and its helpers.                    *)
(*                                                                         *)
(* Lengths are fixed-point numbers in thousandths of a CSS pixel.  An SVG  *)
(* text is represented by what the converter reads from it: whether it has *)
(* a root tag, and the tag's attributes in order, each <<name, value>>.  A *)
(* length value is <<number, unit>>, a viewBox value a sequence of numbers.*)
(* A PNG is represented by its byte length and its IHDR width and height.  *)
(***************************************************************************)
\* Python round(): round half to even, of the rational n/d (n >= 0, d > 0)
RoundHalfEven(n, d) ==
    LET q == n \div d
        r == n % d
    IN IF 2 * r < d THEN q
       ELSE IF 2 * r > d THEN q + 1
       ELSE IF q % 2 = 0 THEN q ELSE q + 1

\* floor of the square root, of a number up to 1000000
RECURSIVE ISqrtIn(_, _, _)
ISqrtIn(n, lo, hi) ==
    IF lo >= hi THEN lo
    ELSE LET mid == (lo + hi + 1) \div 2
         IN IF mid * mid <= n THEN ISqrtIn(n, mid, hi) ELSE ISqrtIn(n, lo, mid - 1)
ISqrt(n) == ISqrtIn(n, 0, 1000)

\* float() of a numeral too large for a double, or of "inf": it compares greater than
\* every number, and int(round()) of it raises OverflowError
Inf == 2000000000
OverflowError == <<"OverflowError">>

\* the names an attribute can be written with for the pattern \bNAME\s*= to match it,
\* case-insensitively: the name itself in any case, and any name ending in "-NAME"
AttrForms(name) ==
    IF name = "width" THEN {"width", "WIDTH", "stroke-width"}
    ELSE IF name = "height" THEN {"height", "Height", "line-height"}
    ELSE {"viewBox", "viewbox"}

\* _extract_attr: the value of the first match of the pattern in the tag, None without one
extract_attr(attrs, name) ==
    LET idx == {i \in 1..Len(attrs) : attrs[i][1] \in AttrForms(name)}
    IN IF idx = {} THEN None ELSE attrs[SetMin(idx)][2]

\* str.lower() of a unit
Lower(u) == IF u = "MM" THEN "mm" ELSE IF u = "PX" THEN "px" ELSE u

\* _length_to_css_px, in thousandths of a pixel; None for an unsupported unit or for a
\* value the pattern of lengths does not match (unit "bad")
length_to_css_px(value) ==
    LET num  == value[1]
        unit == IF value[2] = "" THEN "px" ELSE Lower(value[2])
    IN IF unit = "px" THEN <<num>>
       ELSE IF unit = "in" THEN <<num * 96>>
       ELSE IF unit = "pt" THEN <<(num * 96) \div 72>>
       ELSE IF unit = "pc" THEN <<num * 16>>
       ELSE IF unit = "mm" THEN <<(num * 960) \div 254>>
       ELSE IF unit = "cm" THEN <<(num * 9600) \div 254>>
       ELSE None

\* _parse_viewbox: the 3rd and 4th of exactly four numbers, both positive
parse_viewbox(value) ==
    IF Len(value) # 4 THEN None
    ELSE IF value[3] <= 0 \/ value[4] <= 0 THEN None
    ELSE <<value[3], value[4]>>

SvgCssSize(w, h) == [width_px |-> w, height_px |-> h]

\* parse_svg_css_size
parse_svg_css_size(svg) ==
    LET width_raw == extract_attr(svg.attrs, "width")
        height_raw == extract_attr(svg.attrs, "height")
        viewbox_raw == extract_attr(svg.attrs, "viewBox")
        w == IF width_raw # None THEN length_to_css_px(width_raw) ELSE None
        h == IF height_raw # None THEN length_to_css_px(height_raw) ELSE None
        vb == IF viewbox_raw # None THEN parse_viewbox(viewbox_raw) ELSE None
    IN IF ~svg.has_tag THEN SvgCssSize(300000, 150000)
       ELSE IF w # None /\ h # None /\ w[1] > 0 /\ h[1] > 0 THEN SvgCssSize(w[1], h[1])
       ELSE IF vb # None THEN SvgCssSize(vb[1], vb[2])
       ELSE SvgCssSize(300000, 150000)

\* compute_output_px: (width, height), or the error int(round()) raises
compute_output_px(svg, dpi, max_dim_px) ==
    LET css == parse_svg_css_size(svg)
        w == Max2(1, RoundHalfEven(css.width_px * dpi, 96000))
        h == Max2(1, RoundHalfEven(css.height_px * dpi, 96000))
        mx == Max2(w, h)
    IN IF css.width_px = Inf \/ css.height_px = Inf THEN OverflowError
       ELSE IF max_dim_px > 0 /\ mx > max_dim_px
       THEN <<Max2(1, RoundHalfEven(w * max_dim_px, mx)),
              Max2(1, RoundHalfEven(h * max_dim_px, mx))>>
       ELSE <<w, h>>

\* ---- the SVG texts converted: whether there is a root tag, and its attributes in order ----
SvgText(attrs) == [has_tag |-> TRUE, attrs |-> attrs]
Svg10  == SvgText(<<<<"width", <<10000, "">>>>, <<"height", <<10000, "">>>>>>)
SvgVb  == SvgText(<<<<"width", <<100000, "%">>>>, <<"viewBox", <<0, 0, 40000, 20000>>>>>>)
ConvertSvgs == {Svg10, SvgVb}

\* ---- AppConfig values given to the converter ----
\* (the defaults of config.py, except a dpi of 96 and a cache capacity of one entry)
DefaultCfg ==
    [dpi |-> 96, background_hex |-> "#FFFFFF", max_output_dim_px |-> 16384,
     max_output_png_bytes |-> 0, trim_border |-> FALSE, trim_tolerance |-> 8,
     cache_enabled |-> TRUE, cache_max_items |-> 1, conversion_timeout_s |-> 30,
     debounce_ms |-> 200, save_dir |-> ""]
Configs ==
    {DefaultCfg,
     [DefaultCfg EXCEPT !.max_output_png_bytes = 100, !.trim_border = TRUE,
                        !.cache_max_items = 2],
     [DefaultCfg EXCEPT !.max_output_png_bytes = 100, !.cache_enabled = FALSE,
                        !.dpi = 192, !.max_output_dim_px = 16],
     [DefaultCfg EXCEPT !.trim_border = TRUE]}

\* byte lengths of the PNGs the rasterizer or the re-encoding after a crop can produce
PngLens == {90, 200, 1000}

Png(len, w, h) == [len |-> len, w |-> w, h |-> h]
NoPng == Png(0, 0, 0)


\* ---- LruCache (cache.py): data is the OrderedDict, least recently used first; made
\* (history) tells, for each key convert() stored, the border-trim settings of the call
\* that stored it ----
LruCache(max_items) == [on |-> TRUE, max_items |-> max_items, data |-> <<>>, made |-> {}]
NoCache == [on |-> FALSE, max_items |-> 0, data |-> <<>>, made |-> {}]

LruHas(c, key) == \E i \in 1..Len(c.data) : c.data[i][1] = key
LruIndex(c, key) == CHOOSE i \in 1..Len(c.data) : c.data[i][1] = key
SeqRemove(q, i) == SubSeq(q, 1, i - 1) \o SubSeq(q, i + 1, Len(q))
\* OrderedDict.move_to_end
MoveToEnd(data, i) == Append(SeqRemove(data, i), data[i])
\* (variant: a put that never evicts)
PopNothing(data, max_items) == data
RECURSIVE PopWhileOver(_, _)
PopWhileOver(data, max_items) ==
    IF Len(data) > max_items THEN PopWhileOver(Tail(data), max_items) ELSE data

\* (variant: a get that drops the oldest entry when the key is missing)
LruGetCachePopsOnMiss(c, key) ==
    IF LruHas(c, key) THEN [c EXCEPT !.data = MoveToEnd(c.data, LruIndex(c, key))]
    ELSE [c EXCEPT !.data = IF c.data = <<>> THEN <<>> ELSE Tail(c.data)]
\* (variant: a get that does not promote)
LruGetCacheNoPromote(c, key) == c
\* LruCache.get: the value (None on a miss) and the cache afterwards
LruGetValue(c, key) == IF LruHas(c, key) THEN c.data[LruIndex(c, key)][2] ELSE None
LruGetCache(c, key) ==
    IF LruHas(c, key) THEN [c EXCEPT !.data = MoveToEnd(c.data, LruIndex(c, key))] ELSE c
\* (variant: a put that stores nothing)
LruPutNothing(c, key, value) == c
\* LruCache.put
LruPut(c, key, value) ==
    LET moved == IF LruHas(c, key) THEN SeqRemove(c.data, LruIndex(c, key)) ELSE c.data
    IN [c EXCEPT !.data = PopWhileOver(Append(moved, <<key, value>>), c.max_items)]

\* ---- ResvgRenderer ----
\* capability sets _probe_caps can cache: every flag found, only zoom and dpi, none
\* (the probe failed or the help text names no flag)
CapsSets == {{"width", "height", "zoom", "dpi"}, {"zoom", "dpi"}, {}}

\* the probe has not run yet (_caps is None)
Unprobed == {"unprobed"}

\* IHDR size of the PNG the rasterizer writes for the arguments built from the
\* capabilities: the requested size when --width and --height are passed; the
\* document's own size scaled by dpi / 96 when only --zoom is passed; the document's
\* own size when no size argument is passed.
RenderDims(c, svg, dpi, req_w, req_h) ==
    IF {"width", "height"} \subseteq c THEN {<<req_w, req_h>>}
    ELSE IF "zoom" \in c THEN {compute_output_px(svg, dpi, 0)}
    ELSE {compute_output_px(svg, 96, 0)}

\* what subprocess.run and the output file can be like afterwards: the process timed out,
\* or exited with returncode; out.png exists or not, with size bytes
Proc(timed_out, returncode, exists, size) ==
    [timed_out |-> timed_out, returncode |-> returncode, exists |-> exists, size |-> size]
NoProc == Proc(FALSE, 0, FALSE, 0)
ProcOutcomes ==
    {Proc(TRUE, 0, FALSE, 0), Proc(TRUE, 0, TRUE, 200),
     Proc(FALSE, 1, TRUE, 200), Proc(FALSE, 1, FALSE, 0), Proc(FALSE, 0, FALSE, 0),
     Proc(FALSE, 0, TRUE, 0)}
    \cup {Proc(FALSE, 0, TRUE, len) : len \in PngLens}

\* (variant: the output file is returned without looking at its size)
render_error_NoSizeCheck(p) ==
    IF p.timed_out THEN "timeout"
    ELSE IF p.returncode # 0 \/ ~p.exists THEN "render"
    ELSE ""
\* render_svg_to_png_bytes, lines 225-248: the error raised, "" when the bytes are returned
render_error(p) ==
    IF p.timed_out THEN "timeout"
    ELSE IF p.returncode # 0 \/ ~p.exists THEN "render"
    ELSE IF p.size <= 0 THEN "render"
    ELSE ""

\* render_svg_to_png_bytes: the bytes of the output file, or an error
RenderOutcomes(c, svg, dpi, req_w, req_h) ==
    {[error |-> render_error(p),
      png |-> IF render_error(p) = "" THEN Png(p.size, d[1], d[2]) ELSE NoPng,
      proc |-> p] :
        p \in ProcOutcomes, d \in RenderDims(c, svg, dpi, req_w, req_h)}

\* trim_png_border: (bytes, width, height), the input with its own size when nothing is
\* cropped, a re-encoded smaller image otherwise (never when a side is <= 2)
trim_png_border(png) ==
    {<<png, png.w, png.h>>}
    \cup (IF png.w <= 2 \/ png.h <= 2 THEN {}
          ELSE {<<Png(len, png.w - 1, png.h - 1), png.w - 1, png.h - 1>> : len \in PngLens})

\* ---- SvgToPngConverter.convert ----
max_attempts == 6

ConversionResult(svg_hash, png, render_ms, w, h) ==
    [svg_hash |-> svg_hash, png_bytes |-> png, render_ms |-> render_ms,
     width_px |-> w, height_px |-> h]
NoResult == ConversionResult(None, NoPng, 0, 0, 0)

IdleCall ==
    [pc |-> "idle", svg |-> Svg10, cfg |-> DefaultCfg, width_px |-> 0, height_px |-> 0,
     cache_key |-> <<>>, render_w |-> 0, render_h |-> 0, composed |-> NoPng,
     attempt |-> 0, invoked |-> 0, hit |-> FALSE, error |-> "", result |-> NoResult,
     used |-> DefaultCfg, proc |-> NoProc, raw |-> NoPng]

\* settings_key and cache_key (renderer.py 299-303)
SettingsKey(c, w, h) ==
    <<c.dpi, c.background_hex, w, h, c.max_output_png_bytes>>
CacheKey(svg, c, w, h) == <<Sha256(svg), Sha256(SettingsKey(c, w, h))>>

\* scale = max(0.10, min(0.95, sqrt(max_png_bytes / len) * 0.90)), in thousandths
ScaleMilli(max_png_bytes, len) ==
    Max2(100, Min2(950, (900 * ISqrt((1000000 * max_png_bytes) \div len)) \div 1000))
\* (variant: the next size without the floor at one pixel)
NextDimNoFloor(dim, scale) == RoundHalfEven(dim * scale, 1000)
\* next_w = max(1, int(round(render_w * scale)))
NextDim(dim, scale) == Max2(1, RoundHalfEven(dim * scale, 1000))

\* (variant: no check after the loop)
AfterLoopAlwaysStore(max_png_bytes, composed) == "store"
\* the check after the loop: the size-limit error, or on to the cache store
AfterLoop(max_png_bytes, composed) ==
    IF max_png_bytes > 0 /\ composed.len > max_png_bytes THEN "raised" ELSE "store"

\* SvgToPngConverter.__init__ with the configuration the application loaded
InitConverter ==
    /\ cfg = DefaultCfg
    /\ cache = IF cfg.cache_enabled THEN LruCache(cfg.cache_max_items) ELSE NoCache
    /\ caps = Unprobed
    /\ sc = "idle"
    /\ cv = IdleCall
    /\ calls = 0

\* set_config, first half: store the copy of the new configuration under _cfg_lock
set_config(c) ==
    /\ sc = "idle"
    /\ cfg' = c
    /\ sc' = "rebuild"
    /\ UNCHANGED <<cache, caps, cv, calls>>
    /\ UNCHANGED wvars
    /\ UNCHANGED pvars

\* (variant: a rebuild that carries the entries over)
rebuild_cache_KeepsEntries ==
    /\ sc = "rebuild"
    /\ cache' = IF cfg.cache_enabled
                THEN [LruCache(cfg.cache_max_items) EXCEPT !.data = cache.data]
                ELSE NoCache
    /\ sc' = "idle"
    /\ UNCHANGED <<cfg, caps, cv, calls>>
    /\ UNCHANGED wvars
    /\ UNCHANGED pvars

\* set_config, second half: _rebuild_cache
rebuild_cache ==
    /\ sc = "rebuild"
    /\ cache' = IF cfg.cache_enabled THEN LruCache(cfg.cache_max_items) ELSE NoCache
    /\ sc' = "idle"
    /\ UNCHANGED <<cfg, caps, cv, calls>>
    /\ UNCHANGED wvars
    /\ UNCHANGED pvars

\* convert() is called with svg_text
convert_begin(svg) ==
    /\ cv.pc \in {"idle", "done", "raised"}
    /\ calls < MaxCalls
    /\ calls' = calls + 1
    /\ cv' = [IdleCall EXCEPT !.pc = "snapshot", !.svg = svg]
    /\ UNCHANGED <<cfg, cache, caps, sc>>
    /\ UNCHANGED wvars
    /\ UNCHANGED pvars

\* the settings snapshot under _cfg_lock, then the target size and the cache key
convert_snapshot ==
    /\ cv.pc = "snapshot"
    /\ LET px == compute_output_px(cv.svg, cfg.dpi, cfg.max_output_dim_px)
       IN cv' = [cv EXCEPT !.pc = "lookup", !.cfg = cfg,
                           !.width_px = px[1], !.height_px = px[2],
                           !.cache_key = CacheKey(cv.svg, cfg, px[1], px[2])]
    /\ UNCHANGED <<cfg, cache, caps, sc, calls>>
    /\ UNCHANGED wvars
    /\ UNCHANGED pvars

\* the cache lookup: a hit returns, a miss enters the loop
convert_lookup ==
    /\ cv.pc = "lookup"
    /\ IF cache.on /\ LruGetValue(cache, cv.cache_key) # None
       THEN LET hit == LruGetValue(cache, cv.cache_key)
            IN /\ cv' = [cv EXCEPT !.pc = "done", !.hit = TRUE,
                            !.result = ConversionResult(Sha256(cv.svg), hit[1], 0,
                                                        hit[2], hit[3])]
               /\ cache' = LruGetCache(cache, cv.cache_key)
       ELSE /\ cv' = [cv EXCEPT !.pc = "render", !.render_w = cv.width_px,
                                !.render_h = cv.height_px]
            /\ cache' = IF cache.on THEN LruGetCache(cache, cv.cache_key) ELSE cache
    /\ UNCHANGED <<cfg, caps, sc, calls>>
    /\ UNCHANGED wvars
    /\ UNCHANGED pvars

\* one iteration of the size-fit loop (and, after the last one, the size-limit check);
\* used (history) is the configuration the iteration read its settings from, proc
\* (history) what the rasterizer process did, raw the bytes the renderer returned
\* (variant: the loop reads the shared _cfg instead of its snapshot)
SharedCfg == cfg
\* the local cfg of convert(): the copy taken under _cfg_lock
LocalCfg == cv.cfg

convert_render ==
    /\ cv.pc = "render"
    /\ \E c \in (IF caps = Unprobed THEN CapsSets ELSE {caps}) :
         /\ caps' = c
         /\ \E r \in RenderOutcomes(c, cv.svg, LocalCfg.dpi, cv.render_w, cv.render_h) :
              IF r.error # ""
              THEN cv' = [cv EXCEPT !.pc = "raised", !.error = r.error,
                                    !.invoked = cv.invoked + 1, !.used = LocalCfg,
                                    !.proc = r.proc, !.raw = NoPng]
              ELSE \E t \in (IF LocalCfg.trim_border THEN trim_png_border(r.png)
                             ELSE {<<r.png, cv.render_w, cv.render_h>>}) :
                     LET composed == t[1]
                         max_png == LocalCfg.max_output_png_bytes
                         fits == max_png <= 0 \/ composed.len <= max_png
                         scale == ScaleMilli(max_png, composed.len)
                         next_w == NextDim(t[2], scale)
                         next_h == NextDim(t[3], scale)
                         same == next_w = t[2] /\ next_h = t[3]
                         again == ~fits /\ ~same /\ cv.attempt + 1 < max_attempts
                         after == AfterLoop(max_png, composed)
                     IN cv' = [cv EXCEPT
                                 !.composed = composed,
                                 !.used = LocalCfg,
                                 !.proc = r.proc,
                                 !.raw = r.png,
                                 !.invoked = cv.invoked + 1,
                                 !.attempt = cv.attempt + 1,
                                 !.render_w = IF fits \/ same THEN t[2] ELSE next_w,
                                 !.render_h = IF fits \/ same THEN t[3] ELSE next_h,
                                 !.pc = IF again THEN "render" ELSE after,
                                 !.error = IF ~again /\ after = "raised"
                                           THEN "size_limit" ELSE ""]
    /\ UNCHANGED <<cfg, cache, sc, calls>>
    /\ UNCHANGED wvars
    /\ UNCHANGED pvars

\* history: the entry under key was stored by a call whose snapshot was c; entries that
\* were evicted are forgotten
Made(c2, key, c) ==
    [c2 EXCEPT !.made = {m \in c2.made : m[1] # key /\ LruHas(c2, m[1])}
                        \cup {<<key, c.trim_border, c.trim_tolerance>>}]

\* the cache store and the return of the result; render_ms, the positive time the
\* loop took, is represented by the number of rasterizer runs
convert_store ==
    /\ cv.pc = "store"
    /\ cache' = IF cache.on
                THEN Made(LruPut(cache, cv.cache_key,
                                 <<cv.composed, cv.render_w, cv.render_h>>),
                          cv.cache_key, cv.cfg)
                ELSE cache
    /\ cv' = [cv EXCEPT !.pc = "done",
                        !.result = ConversionResult(Sha256(cv.svg), cv.composed, cv.invoked,
                                                    cv.render_w, cv.render_h)]
    /\ UNCHANGED <<cfg, caps, sc, calls>>
    /\ UNCHANGED wvars
    /\ UNCHANGED pvars

NextConverter ==
    \/ \E c \in Configs : set_config(c)
    \/ rebuild_cache
    \/ \E svg \in ConvertSvgs : convert_begin(svg)
    \/ convert_snapshot
    \/ convert_lookup
    \/ convert_render
    \/ convert_store

\* nothing applied yet
NoCall == [fn |-> "none", arg |-> <<>>, ret |-> <<>>, had |-> FALSE]
\* no clipboard write started; the clipboard holds the text the user copied
NoWrite ==
    [app |-> "idle", pc |-> "idle", caller |-> "none", width_px |-> 0, height_px |-> 0,
     also_set_dibv5 |-> FALSE, max_dibv5_bytes |-> 0, open_retries |-> 0, pixel_len |-> 0,
     dibv5 |-> FALSE, tries |-> 0, session |-> FALSE, opened |-> 0, closes |-> 0,
     emptied |-> FALSE, wrote_png |-> FALSE, wrote_dibv5 |-> FALSE, error |-> "",
     ret |-> "none"]
\* threads that can call one ResvgRenderer
Threads == {1, 2}
\* nobody holds _caps_lock, no thread is in a call
NoProbe ==
    [lock |-> 0, th |-> [t \in Threads |-> [pc |-> "idle", caps |-> Unprobed]],
     probes |-> 0, renders |-> 0]
\* a file with its bytes, and a path without a file
File(bytes) == [exists |-> TRUE, bytes |-> bytes]
NoFile == [exists |-> FALSE, bytes |-> <<>>]
\* atomic_write_bytes not called
NoAtomicWrite ==
    [pc |-> "idle", data |-> <<>>, old |-> NoFile, written |-> 0, replaced |-> FALSE,
     unlink_failed |-> FALSE, failed |-> ""]
InitOther ==
    /\ wc = NoWrite /\ nclip = <<"CF_UNICODETEXT">> /\ pr = NoProbe
    /\ aw = NoAtomicWrite /\ fs = [path |-> NoFile, tmp |-> NoFile]
    /\ burst = 0

InitPure == fcall = NoCall /\ accessed = <<>> /\ InitOther

InitConvert == InitWatcher /\ converter = "convert" /\ InitConverter /\ InitPure

SpecConvert == InitConvert /\ [][NextConverter]_vars

(***************************************************************************)
(* Part III.  Objects and functions applied on their own.                  *)
(***************************************************************************)
\* ---- LruCache (cache.py), any interleaving of get and put; each runs under _lock ----
LruKeys == 1..(MaxItems + 1)
LruValues == {"v1", "v2"}

\* history: k becomes the most recently accessed key
Touch(q, k) == Append(SelectSeq(q, LAMBDA x : x # k), k)

InitLru ==
    /\ InitWatcher
    /\ converter = "convert"
    /\ cfg = DefaultCfg
    /\ cache \in {LruCache(n) : n \in 1..MaxItems}
    /\ caps = Unprobed
    /\ sc = "idle"
    /\ cv = IdleCall
    /\ calls = 0
    /\ InitPure

\* LruCache.get(key)
lru_get(k) ==
    /\ fcall' = [fn |-> "get", arg |-> <<k>>, ret |-> LruGetValue(cache, k),
                 had |-> LruHas(cache, k)]
    /\ cache' = LruGetCache(cache, k)
    /\ accessed' = IF LruHas(cache, k) THEN Touch(accessed, k) ELSE accessed
    /\ UNCHANGED <<cfg, caps, sc, cv, calls>>
    /\ UNCHANGED <<wvars, xvars>>

\* LruCache.put(key, value)
lru_put(k, v) ==
    /\ fcall' = [fn |-> "put", arg |-> <<k, v>>, ret |-> None, had |-> LruHas(cache, k)]
    /\ cache' = LruPut(cache, k, v)
    /\ accessed' = Touch(accessed, k)
    /\ UNCHANGED <<cfg, caps, sc, cv, calls>>
    /\ UNCHANGED <<wvars, xvars>>

NextLru ==
    \/ \E k \in LruKeys : lru_get(k)
    \/ \E k \in LruKeys, v \in LruValues : lru_put(k, v)

SpecLru == InitLru /\ [][NextLru]_vars

\* ---- normalize_svg_markup and the text checks of _on_clipboard_changed ----
\* tokens of a text: tags the two patterns match (in either case, with white space before
\* ">"), "<svgz" which "<svg\b" does not match, white space, other characters
TextTokens == OpenTokens \cup CloseTokens \cup {"<svgz", "sp", "x"}
\* 'abc <?xml version="1.0"?>\n<svg></svg>\nxyz' and 'hello' of test_svg_detect.py
TextPreamble == <<"x", "sp", "x", "sp", "<svg", "</svg>", "sp", "x">>
TextHello == <<"x">>
DetectTexts ==
    UNION {[1..n -> TextTokens] : n \in 0..MaxTextLen} \cup UserTexts \cup {TextPreamble, TextHello}

\* _on_clipboard_changed, lines 125-134: the text that becomes pending, None when the
\* handler returns
AcceptedText(t) ==
    IF t = <<>> THEN None
    ELSE IF Len(t) > max_svg_chars THEN None
    ELSE normalize_svg_markup(t)

InitFunctions == InitWatcher /\ converter = "convert" /\ InitConverter /\ InitPure

\* one application per behaviour, to an argument drawn from the bounded set
apply_normalize ==
    /\ fcall = NoCall
    /\ \E t \in DetectTexts :
         fcall' = [fn |-> "normalize_svg_markup", arg |-> <<t>>,
                   ret |-> normalize_svg_markup(t), had |-> FALSE]
    /\ UNCHANGED <<wvars, cvars, accessed, xvars>>

apply_accept ==
    /\ fcall = NoCall
    /\ \E t \in DetectTexts :
         fcall' = [fn |-> "accept", arg |-> <<t>>, ret |-> AcceptedText(t), had |-> FALSE]
    /\ UNCHANGED <<wvars, cvars, accessed, xvars>>

NextDetect ==
    \/ apply_normalize
    \/ apply_accept

SpecDetect == InitFunctions /\ [][NextDetect]_vars

\* ---- the cache key of convert() (renderer.py 288-303), for two calls ----
\* the settings the two calls can run under: every combination of two values of dpi,
\* background, max dimension, byte budget and border trim, with or without a change of
\* timeout, debounce interval and save location
KeyConfigs ==
    {[DefaultCfg EXCEPT !.dpi = d, !.background_hex = b, !.max_output_dim_px = m,
                        !.max_output_png_bytes = p, !.trim_border = tb,
                        !.conversion_timeout_s = o[1], !.debounce_ms = o[2],
                        !.save_dir = o[3]] :
        d \in {96, 192}, b \in {"#FFFFFF", "#000000"}, m \in {16384, 16}, p \in {0, 100},
        tb \in BOOLEAN, o \in {<<30, 200, "">>, <<60, 500, "out">>}}

\* width_px, height_px and cache_key as convert() computes them from text and snapshot
ConvertKey(svg, c) ==
    LET px == compute_output_px(svg, c.dpi, c.max_output_dim_px)
    IN CacheKey(svg, c, px[1], px[2])

apply_cache_key ==
    /\ fcall = NoCall
    /\ \E svg1 \in ConvertSvgs, svg2 \in ConvertSvgs, c1 \in KeyConfigs, c2 \in KeyConfigs :
         fcall' = [fn |-> "cache_key", arg |-> <<svg1, c1, svg2, c2>>,
                   ret |-> <<ConvertKey(svg1, c1), ConvertKey(svg2, c2)>>, had |-> FALSE]
    /\ UNCHANGED <<wvars, cvars, accessed, xvars>>

NextKey == apply_cache_key

SpecKey == InitFunctions /\ [][NextKey]_vars

\* ---- parse_svg_css_size and compute_output_px (svg_size.py) ----
\* attributes a root tag can carry
AttrPool ==
    {<<"width", <<100000, "">>>>, <<"width", <<1000, "in">>>>, <<"WIDTH", <<10000, "MM">>>>,
     <<"width", <<50000, "%">>>>, <<"width", <<0, "px">>>>,
     <<"height", <<50000, "px">>>>, <<"height", <<72000, "pt">>>>, <<"Height", <<2000, "pc">>>>,
     <<"height", <<1000, "cm">>>>, <<"height", <<2000, "em">>>>,
     <<"stroke-width", <<2000, "">>>>,
     <<"viewBox", <<0, 0, 640000, 480000>>>>, <<"viewbox", <<0, 0, 0, 20000>>>>,
     <<"viewBox", <<0, 0, Inf, 8000>>>>, <<"viewBox", <<0, 0, 7000>>>>}
SizeSvgs ==
    {SvgText(a) : a \in UNION {[1..n -> AttrPool] : n \in 0..MaxAttrs}}
      \cup {[has_tag |-> FALSE, attrs |-> <<>>]}
SizeDpis == {1, 96, 192}
SizeMaxDims == {0, 120, 1000}

apply_parse_svg_css_size ==
    /\ fcall = NoCall
    /\ \E svg \in SizeSvgs :
         fcall' = [fn |-> "parse_svg_css_size", arg |-> <<svg>>,
                   ret |-> parse_svg_css_size(svg), had |-> FALSE]
    /\ UNCHANGED <<wvars, cvars, accessed, xvars>>

apply_compute_output_px ==
    /\ fcall = NoCall
    /\ \E svg \in SizeSvgs, dpi \in SizeDpis, max_dim_px \in SizeMaxDims :
         fcall' = [fn |-> "compute_output_px", arg |-> <<svg, dpi, max_dim_px>>,
                   ret |-> compute_output_px(svg, dpi, max_dim_px), had |-> FALSE]
    /\ UNCHANGED <<wvars, cvars, accessed, xvars>>

NextSize ==
    \/ apply_parse_svg_css_size
    \/ apply_compute_output_px

SpecSize == InitFunctions /\ [][NextSize]_vars

\* ---- AppController._parse_png_dimensions (app.py 206-218) ----
\* An unsigned 32-bit integer is represented by its two 16-bit halves, <<high, low>>.
PngSignature == <<137, 80, 78, 71, 13, 10, 26, 10>>
IHDR == <<73, 72, 68, 82>>

\* (variant: the four bytes read least significant first)
from_bytes_little(b) == <<b[4] * 256 + b[3], b[2] * 256 + b[1]>>
\* int.from_bytes(b, "big", signed=False) of four bytes
from_bytes_big(b) == <<b[1] * 256 + b[2], b[3] * 256 + b[4]>>

\* _parse_png_dimensions
parse_png_dimensions(png_bytes) ==
    IF Len(png_bytes) < 24 THEN <<<<0, 0>>, <<0, 0>>>>
    ELSE IF SubSeq(png_bytes, 1, 8) # PngSignature THEN <<<<0, 0>>, <<0, 0>>>>
    ELSE IF SubSeq(png_bytes, 13, 16) # IHDR THEN <<<<0, 0>>, <<0, 0>>>>
    ELSE <<from_bytes_big(SubSeq(png_bytes, 17, 20)),
           from_bytes_big(SubSeq(png_bytes, 21, 24))>>

\* byte strings given to it: a signature (right, or wrong in its first or last byte), a
\* chunk length, a chunk type, two four-byte fields and five more bytes, cut at some length
PngSignatures == {PngSignature, <<0, 80, 78, 71, 13, 10, 26, 10>>, <<137, 80, 78, 71, 13, 10, 26, 0>>}
ChunkTypes == {IHDR, <<73, 68, 65, 84>>, <<73, 72, 68, 0>>}
FourBytes == {<<0, 0, 0, 10>>, <<0, 0, 1, 2>>, <<1, 2, 3, 4>>, <<255, 255, 255, 255>>, <<128, 0, 0, 0>>}
PngCuts == {0, 8, 16, 23, 24, 29}
PngInputs ==
    {SubSeq(sig \o <<0, 0, 0, 13>> \o ty \o w \o h \o <<8, 6, 0, 0, 0>>, 1, n) :
        sig \in PngSignatures, ty \in ChunkTypes, w \in FourBytes, h \in FourBytes,
        n \in PngCuts}

apply_parse_png_dimensions ==
    /\ fcall = NoCall
    /\ \E b \in PngInputs :
         fcall' = [fn |-> "parse_png_dimensions", arg |-> <<b>>,
                   ret |-> parse_png_dimensions(b), had |-> FALSE]
    /\ UNCHANGED <<wvars, cvars, accessed, xvars>>

NextPng == apply_parse_png_dimensions

SpecPng == InitFunctions /\ [][NextPng]_vars

\* ---- ResvgRenderer.render_svg_to_png_bytes: the argument list (renderer.py 206-217) ----
\* The flags between the executable and the two file paths, each with its value; the zoom
\* factor dpi / 96 is given in millionths, as its six decimals print.
render_args(c, dpi, width_px, height_px) ==
    (IF "dpi" \in c THEN <<<<"--dpi", dpi>>>> ELSE <<>>)
    \o (IF "width" \in c THEN <<<<"--width", width_px>>>> ELSE <<>>)
    \o (IF "height" \in c THEN <<<<"--height", height_px>>>>
        ELSE IF "zoom" \in c THEN <<<<"--zoom", RoundHalfEven(dpi * 1000000, 96)>>>>
        ELSE <<>>)

\* every capability set a help text can give, and the values rendered with
AllCaps == SUBSET {"width", "height", "zoom", "dpi"}
ArgDpis == {72, 96, 192}
ArgPixels == {1, 10, 300}

apply_render_args ==
    /\ fcall = NoCall
    /\ \E c \in AllCaps, dpi \in ArgDpis, w \in ArgPixels, h \in ArgPixels :
         fcall' = [fn |-> "render_args", arg |-> <<c, dpi, w, h>>,
                   ret |-> render_args(c, dpi, w, h), had |-> FALSE]
    /\ UNCHANGED <<wvars, cvars, accessed, xvars>>

NextArgs == apply_render_args

SpecArgs == InitFunctions /\ [][NextArgs]_vars

(***************************************************************************)
(* Part IV.  The clipboard write of a result.                              *)
(*                                                                         *)
(* One call per behaviour, by AppController._write_png_to_clipboard on     *)
(* Windows or elsewhere, or by a direct caller of                          *)
(* set_windows_clipboard_png with arguments of its own.  Each Win32 call   *)
(* is a step whose result the system chooses.                              *)
(***************************************************************************)
\* max_dib_bytes = 64 * 1024 * 1024 in _write_png_to_clipboard
max_dib_bytes == 67108864
\* open_retries: int = 10, the default the application relies on
open_retries_default == 10

\* IHDR sizes of the PNG written: unparsed (0,0), tiny, exactly at the ceiling, above it
WriteDims == {<<0, 0>>, <<4, 4>>, <<4096, 4096>>, <<5000, 4096>>}
\* len(pixel_bytes) after the decode: 0 when the decode failed, else 4 bytes per pixel
\* of the decoded image
PixelLens == {0, 64, 67108864, 81920000}
\* max_dibv5_bytes a direct caller passes
DirectCeilings == {0, 64, max_dib_bytes}

\* (variant: the bitmap is built whenever the decode succeeded)
dibv5_bytes_NoCeiling(also_set_dibv5, width_px, height_px, max_dibv5_bytes, pixel_len) ==
    also_set_dibv5 /\ pixel_len > 0
\* lines 160-191: whether dibv5_bytes is not None
dibv5_bytes(also_set_dibv5, width_px, height_px, max_dibv5_bytes, pixel_len) ==
    /\ also_set_dibv5
    /\ width_px * height_px * 4 <= max_dibv5_bytes
    /\ pixel_len > 0
    /\ pixel_len <= max_dibv5_bytes

\* (variant: a loop that tries once more than open_retries)
OpenExhaustedOneLate(tries, open_retries) == tries > open_retries
\* for _ in range(int(open_retries)): the loop has run out
OpenExhausted(tries, open_retries) == tries >= open_retries

\* AppController._write_png_to_clipboard is called with a PNG (lines 165-188)
write_png_to_clipboard ==
    /\ wc.app = "idle" /\ wc.pc = "idle"
    /\ \E d \in WriteDims, win \in BOOLEAN :
         wc' = [NoWrite EXCEPT !.app = IF win THEN "native" ELSE "fallback",
                               !.pc = IF win THEN "prepare" ELSE "idle",
                               !.caller = "app", !.width_px = d[1], !.height_px = d[2],
                               !.also_set_dibv5 = TRUE, !.max_dibv5_bytes = max_dib_bytes,
                               !.open_retries = open_retries_default]
    /\ UNCHANGED nclip
    /\ UNCHANGED <<wvars, cvars, fcall, accessed, burst, pr, aw, fs>>

\* set_windows_clipboard_png is called by another caller, with arguments of its own
direct_call ==
    /\ wc.app = "idle" /\ wc.pc = "idle"
    /\ \E d \in WriteDims, also \in BOOLEAN, m \in DirectCeilings, n \in 0..MaxOpenRetries :
         wc' = [NoWrite EXCEPT !.app = "direct", !.pc = "prepare", !.caller = "direct",
                               !.width_px = d[1], !.height_px = d[2],
                               !.also_set_dibv5 = also, !.max_dibv5_bytes = m,
                               !.open_retries = n]
    /\ UNCHANGED nclip
    /\ UNCHANGED <<wvars, cvars, fcall, accessed, burst, pr, aw, fs>>

\* lines 158-191: _register_format("PNG"), which raises when the registration fails,
\* and the optional bitmap
prepare ==
    /\ wc.pc = "prepare"
    /\ \E registered \in BOOLEAN, pixel_len \in PixelLens :
         IF ~registered
         THEN wc' = [wc EXCEPT !.pc = "raised", !.error = "register", !.ret = "error"]
         ELSE wc' = [wc EXCEPT !.pc = "open", !.pixel_len = pixel_len,
                       !.dibv5 = dibv5_bytes(wc.also_set_dibv5, wc.width_px, wc.height_px,
                                             wc.max_dibv5_bytes, pixel_len)]
    /\ UNCHANGED nclip
    /\ UNCHANGED <<wvars, cvars, fcall, accessed, burst, pr, aw, fs>>

\* lines 193-198: one pass of the loop (OpenClipboard succeeds, or fails and the call
\* sleeps), or its else branch
OpenClipboard ==
    /\ wc.pc = "open"
    /\ IF OpenExhausted(wc.tries, wc.open_retries)
       THEN wc' = [wc EXCEPT !.pc = "raised", !.error = "busy", !.ret = "busy"]
       ELSE \E ok \in BOOLEAN :
              wc' = [wc EXCEPT !.tries = wc.tries + 1,
                               !.pc = IF ok THEN "empty" ELSE "open",
                               !.session = ok,
                               !.opened = IF ok THEN wc.opened + 1 ELSE wc.opened]
    /\ UNCHANGED nclip
    /\ UNCHANGED <<wvars, cvars, fcall, accessed, burst, pr, aw, fs>>

\* lines 203-204
EmptyClipboard ==
    /\ wc.pc = "empty"
    /\ \E ok \in BOOLEAN :
         IF ok
         THEN /\ nclip' = <<>>
              /\ wc' = [wc EXCEPT !.pc = "set_png", !.emptied = TRUE]
         ELSE /\ UNCHANGED nclip
              /\ wc' = [wc EXCEPT !.pc = "close", !.error = "empty"]
    /\ UNCHANGED <<wvars, cvars, fcall, accessed, burst, pr, aw, fs>>

\* lines 206-207: _set_clipboard_data(png_fmt, png_bytes); GlobalAlloc, GlobalLock or
\* SetClipboardData can fail
set_clipboard_data_png ==
    /\ wc.pc = "set_png"
    /\ \E ok \in BOOLEAN :
         IF ok
         THEN /\ nclip' = Append(nclip, "PNG")
              /\ wc' = [wc EXCEPT !.pc = IF wc.dibv5 THEN "set_dibv5" ELSE "close",
                                  !.wrote_png = TRUE]
         ELSE /\ UNCHANGED nclip
              /\ wc' = [wc EXCEPT !.pc = "close", !.error = "set_png"]
    /\ UNCHANGED <<wvars, cvars, fcall, accessed, burst, pr, aw, fs>>

\* lines 209-211: _set_clipboard_data(CF_DIBV5, dibv5_bytes)
set_clipboard_data_dibv5 ==
    /\ wc.pc = "set_dibv5"
    /\ \E ok \in BOOLEAN :
         IF ok
         THEN /\ nclip' = Append(nclip, "CF_DIBV5")
              /\ wc' = [wc EXCEPT !.pc = "close", !.wrote_dibv5 = TRUE]
         ELSE /\ UNCHANGED nclip
              /\ wc' = [wc EXCEPT !.pc = "close", !.error = "set_dibv5"]
    /\ UNCHANGED <<wvars, cvars, fcall, accessed, burst, pr, aw, fs>>

\* (variant: the session is closed on the success path only)
CloseClipboard_OnSuccessOnly ==
    /\ wc.pc = "close"
    /\ wc' = [wc EXCEPT !.session = IF wc.error = "" THEN FALSE ELSE wc.session,
                        !.closes = IF wc.error = "" THEN wc.closes + 1 ELSE wc.closes,
                        !.pc = IF wc.error = "" THEN "returned" ELSE "raised",
                        !.ret = IF wc.error = "" THEN "stats" ELSE "error"]
    /\ UNCHANGED nclip
    /\ UNCHANGED <<wvars, cvars, fcall, accessed, burst, pr, aw, fs>>

\* lines 212-215: finally CloseClipboard(), then the return of ClipboardWriteStats or the
\* exception on its way to the caller
CloseClipboard ==
    /\ wc.pc = "close"
    /\ wc' = [wc EXCEPT !.session = FALSE,
                        !.closes = wc.closes + 1,
                        !.pc = IF wc.error = "" THEN "returned" ELSE "raised",
                        !.ret = IF wc.error = "" THEN "stats" ELSE "error"]
    /\ UNCHANGED nclip
    /\ UNCHANGED <<wvars, cvars, fcall, accessed, burst, pr, aw, fs>>

\* app.py 189-190: the native write returned; _write_png_to_clipboard returns True
write_returns ==
    /\ wc.app = "native" /\ wc.pc = "returned"
    /\ wc' = [wc EXCEPT !.app = "done"]
    /\ UNCHANGED nclip
    /\ UNCHANGED <<wvars, cvars, fcall, accessed, burst, pr, aw, fs>>

\* app.py 191-193: the exception of the native write is caught and logged
write_except ==
    /\ wc.app = "native" /\ wc.pc = "raised"
    /\ wc' = [wc EXCEPT !.app = "fallback"]
    /\ UNCHANGED nclip
    /\ UNCHANGED <<wvars, cvars, fcall, accessed, burst, pr, aw, fs>>

\* app.py 195-204: the Qt path: image/png always, the decoded image when the estimate
\* is within max_dib_bytes and the decode succeeds; setMimeData replaces the content
qt_set_mime_data ==
    /\ wc.app = "fallback"
    /\ \E decoded \in BOOLEAN :
         nclip' = IF wc.width_px * wc.height_px * 4 <= max_dib_bytes /\ decoded
                  THEN <<"image/png", "image">>
                  ELSE <<"image/png">>
    /\ wc' = [wc EXCEPT !.app = "done"]
    /\ UNCHANGED <<wvars, cvars, fcall, accessed, burst, pr, aw, fs>>

NextClip ==
    \/ write_png_to_clipboard
    \/ direct_call
    \/ prepare
    \/ OpenClipboard
    \/ EmptyClipboard
    \/ set_clipboard_data_png
    \/ set_clipboard_data_dibv5
    \/ CloseClipboard
    \/ write_returns
    \/ write_except
    \/ qt_set_mime_data

SpecClip == InitFunctions /\ [][NextClip]_vars

\* ---- set_windows_clipboard_png: the bitmap-v5 payload (win_clipboard.py 160-191) ----
\* An unsigned 32-bit constant is represented by its two 16-bit halves, <<high, low>>.
BI_BITFIELDS == 3
LCS_sRGB == <<29522, 18242>>
LCS_GM_IMAGES == 4
\* ctypes.sizeof(BITMAPV5HEADER): eleven fields up to bV5ClrImportant, four masks, the
\* colour-space type, the endpoints, three gammas, intent, profile data and size, reserved
SizeofHeader == 40 + 16 + 4 + 36 + 12 + 16
dpi_to_pels_per_meter(dpi) == RoundHalfEven(dpi * 10000, 254)

\* (variant: a header with a positive height, which means bottom-up rows)
BITMAPV5HEADER_BottomUp(width_px, height_px, dpi, pixel_len) ==
    [bV5Size |-> SizeofHeader, bV5Width |-> width_px, bV5Height |-> height_px,
     bV5Planes |-> 1, bV5BitCount |-> 32, bV5Compression |-> BI_BITFIELDS,
     bV5SizeImage |-> pixel_len,
     bV5XPelsPerMeter |-> dpi_to_pels_per_meter(dpi),
     bV5YPelsPerMeter |-> dpi_to_pels_per_meter(dpi),
     bV5RedMask |-> <<255, 0>>, bV5GreenMask |-> <<0, 65280>>,
     bV5BlueMask |-> <<0, 255>>, bV5AlphaMask |-> <<65280, 0>>,
     bV5CSType |-> LCS_sRGB, bV5Intent |-> LCS_GM_IMAGES]
\* the header as lines 173-189 fill it (the fields left at zero are not listed)
BITMAPV5HEADER(width_px, height_px, dpi, pixel_len) ==
    [bV5Size |-> SizeofHeader, bV5Width |-> width_px, bV5Height |-> 0 - height_px,
     bV5Planes |-> 1, bV5BitCount |-> 32, bV5Compression |-> BI_BITFIELDS,
     bV5SizeImage |-> pixel_len,
     bV5XPelsPerMeter |-> dpi_to_pels_per_meter(dpi),
     bV5YPelsPerMeter |-> dpi_to_pels_per_meter(dpi),
     bV5RedMask |-> <<255, 0>>, bV5GreenMask |-> <<0, 65280>>,
     bV5BlueMask |-> <<0, 255>>, bV5AlphaMask |-> <<65280, 0>>,
     bV5CSType |-> LCS_sRGB, bV5Intent |-> LCS_GM_IMAGES]

\* len(pixel_bytes): four bytes for each pixel of the image the decode gives; image is its
\* size, <<0, 0>> when the decode failed
PixelBytes(image) == image[1] * image[2] * 4

\* dibv5_bytes: <<>> when it stays None, else the header and the number of pixel bytes
\* appended to it
dibv5_payload(also_set_dibv5, width_px, height_px, dpi, max_dibv5_bytes, image) ==
    IF dibv5_bytes(also_set_dibv5, width_px, height_px, max_dibv5_bytes, PixelBytes(image))
    THEN <<BITMAPV5HEADER(width_px, height_px, dpi, PixelBytes(image)), PixelBytes(image)>>
    ELSE <<>>

\* sizes of the images the PNG bytes decode to
DibImages == {<<0, 0>>, <<2, 2>>, <<4, 4>>, <<4096, 4096>>}

apply_dibv5_payload ==
    /\ fcall = NoCall
    /\ \E also \in BOOLEAN, d \in WriteDims, dpi \in ArgDpis, m \in DirectCeilings,
          image \in DibImages :
         fcall' = [fn |-> "dibv5_payload", arg |-> <<also, d[1], d[2], dpi, m, image>>,
                   ret |-> dibv5_payload(also, d[1], d[2], dpi, m, image), had |-> FALSE]
    /\ UNCHANGED <<wvars, cvars, accessed, xvars>>

NextDib == apply_dibv5_payload

SpecDib == InitFunctions /\ [][NextDib]_vars

(***************************************************************************)
(* Part V.  ResvgRenderer._probe_caps under racing render calls.           *)
(***************************************************************************)
\* (variant: a failed probe leaves _caps unset)
CapsAfterProbe_FailureNotCached(help) == IF help = {} THEN Unprobed ELSE help
\* lines 169-186: the flags found in the help text; none when the probe raised or timed
\* out (help_text = "")
CapsAfterProbe(help) == help

\* render_svg_to_png_bytes is called on thread t (line 198: caps = self._probe_caps())
render_call(t) ==
    /\ pr.th[t].pc = "idle"
    /\ pr.renders < MaxRenders
    /\ pr' = [pr EXCEPT !.th[t].pc = "lock", !.th[t].caps = Unprobed,
                        !.renders = pr.renders + 1]
    /\ UNCHANGED caps

\* lines 165-167: with self._caps_lock, and the early return of the cached set
probe_lock(t) ==
    /\ pr.th[t].pc = "lock"
    /\ pr.lock = 0
    /\ IF caps # Unprobed
       THEN pr' = [pr EXCEPT !.th[t].pc = "render", !.th[t].caps = caps]
       ELSE pr' = [pr EXCEPT !.lock = t, !.th[t].pc = "probe"]
    /\ UNCHANGED caps

\* lines 169-187: resvg --help is run (or fails), the set is stored and returned, the
\* lock released
probe_run(t) ==
    /\ pr.th[t].pc = "probe"
    /\ \E help \in CapsSets :
         /\ caps' = CapsAfterProbe(help)
         /\ pr' = [pr EXCEPT !.lock = 0, !.th[t].pc = "render",
                             !.th[t].caps = CapsAfterProbe(help),
                             !.probes = pr.probes + 1]

\* lines 200-248: the call builds its arguments from its caps, runs the rasterizer and ends
render_end(t) ==
    /\ pr.th[t].pc = "render"
    /\ pr' = [pr EXCEPT !.th[t].pc = "idle"]
    /\ UNCHANGED caps

NextProbe ==
    \E t \in Threads :
        /\ \/ render_call(t)
           \/ probe_lock(t)
           \/ probe_run(t)
           \/ render_end(t)
        /\ UNCHANGED <<cfg, cache, sc, cv, calls>>
        /\ UNCHANGED <<wvars, fcall, accessed, burst, wc, nclip, aw, fs>>

SpecProbe == InitFunctions /\ [][NextProbe]_vars

(***************************************************************************)
(* Part VI.  atomic_write_bytes, one file-system call per step; a file is  *)
(* the sequence of its bytes.  Every call into the file system can fail.   *)
(***************************************************************************)
\* the bytes written, and what path can hold before the call
WriteDatas == {<<>>, <<1>>, <<1, 2, 3>>}
OldFiles == {NoFile, File(<<9, 9>>), File(<<1, 2>>)}

\* atomic_write_bytes(path, data) is called; lines 23-25
atomic_write_bytes ==
    /\ aw.pc = "idle"
    /\ \E data \in WriteDatas, old \in OldFiles, mkdir_ok \in BOOLEAN :
         /\ aw' = [NoAtomicWrite EXCEPT !.pc = IF mkdir_ok THEN "open" ELSE "raised",
                                        !.failed = IF mkdir_ok THEN "" ELSE "mkdir",
                                        !.data = data, !.old = old]
         /\ fs' = [path |-> old, tmp |-> NoFile]
    /\ UNCHANGED <<wvars, cvars, fcall, accessed, burst, wc, nclip, pr>>

\* line 27, tmp_path.write_bytes(data): the file is created empty
write_open ==
    /\ aw.pc = "open"
    /\ \E ok \in BOOLEAN :
         IF ok
         THEN /\ fs' = [fs EXCEPT !.tmp = File(<<>>)]
              /\ aw' = [aw EXCEPT !.pc = "write"]
         ELSE /\ UNCHANGED fs
              /\ aw' = [aw EXCEPT !.pc = "cleanup", !.failed = "write"]
    /\ UNCHANGED <<wvars, cvars, fcall, accessed, burst, wc, nclip, pr>>

\* line 27: the bytes go into the file one after the other; then it is closed
write_bytes ==
    /\ aw.pc = "write"
    /\ \E ok \in BOOLEAN :
         IF ~ok
         THEN /\ UNCHANGED fs
              /\ aw' = [aw EXCEPT !.pc = "cleanup", !.failed = "write"]
         ELSE IF aw.written < Len(aw.data)
         THEN /\ fs' = [fs EXCEPT !.tmp.bytes = Append(fs.tmp.bytes, aw.data[aw.written + 1])]
              /\ aw' = [aw EXCEPT !.written = aw.written + 1]
         ELSE /\ UNCHANGED fs
              /\ aw' = [aw EXCEPT !.pc = "replace"]
    /\ UNCHANGED <<wvars, cvars, fcall, accessed, burst, wc, nclip, pr>>

\* line 28, os.replace(tmp_path, path): the rename, in one step or not at all
os_replace ==
    /\ aw.pc = "replace"
    /\ \E ok \in BOOLEAN :
         IF ok
         THEN /\ fs' = [path |-> fs.tmp, tmp |-> NoFile]
              /\ aw' = [aw EXCEPT !.pc = "cleanup", !.replaced = TRUE]
         ELSE /\ UNCHANGED fs
              /\ aw' = [aw EXCEPT !.pc = "cleanup", !.failed = "replace"]
    /\ UNCHANGED <<wvars, cvars, fcall, accessed, burst, wc, nclip, pr>>

\* (variant: no removal of the temporary file)
cleanup_Nothing ==
    /\ aw.pc = "cleanup"
    /\ UNCHANGED fs
    /\ aw' = [aw EXCEPT !.pc = IF aw.failed = "" THEN "returned" ELSE "raised"]
    /\ UNCHANGED <<wvars, cvars, fcall, accessed, burst, wc, nclip, pr>>

\* lines 29-34, finally: the temporary file is unlinked if it exists; an exception of
\* exists() or unlink() is swallowed; then the function returns or the exception of
\* the try block goes on
cleanup ==
    /\ aw.pc = "cleanup"
    /\ \E ok \in BOOLEAN :
         IF fs.tmp = NoFile
         THEN /\ UNCHANGED fs
              /\ aw' = [aw EXCEPT !.pc = IF aw.failed = "" THEN "returned" ELSE "raised"]
         ELSE /\ fs' = IF ok THEN [fs EXCEPT !.tmp = NoFile] ELSE fs
              /\ aw' = [aw EXCEPT !.pc = IF aw.failed = "" THEN "returned" ELSE "raised",
                                  !.unlink_failed = ~ok]
    /\ UNCHANGED <<wvars, cvars, fcall, accessed, burst, wc, nclip, pr>>

NextAtomicWrite ==
    \/ atomic_write_bytes
    \/ write_open
    \/ write_bytes
    \/ os_replace
    \/ cleanup

SpecAtomicWrite == InitFunctions /\ [][NextAtomicWrite]_vars

Init == InitWatcher /\ InitConverter /\ InitPure

Next == NextWatcher

Spec == Init /\ [][Next]_vars

\* The Qt event loop and the pool thread run every handler whose event is waiting; the
\* user's actions (copy, start, stop) and the clock carry no such obligation.
SpecFair ==
    /\ Spec
    /\ WF_vars(on_clipboard_changed)
    /\ WF_vars(on_debounce_timeout)
    /\ WF_vars(PoolTake)
    /\ WF_vars(\E j \in poolActive : WorkerRun(j))
    /\ WF_vars(on_worker_finished)
    /\ WF_vars(on_worker_failed)

\* The pool runs what it was given and the event loop delivers what is queued to it.  The
\* finished signal is a queued call the event loop always delivers; in the model the
\* handler also waits for room among the undelivered notifications, so it gets strong
\* fairness: notifications posted in between cannot postpone it for ever.
SpecFairSignals ==
    /\ Spec
    /\ WF_vars(on_clipboard_changed)
    /\ WF_vars(PoolTake \/ (\E j \in poolActive : WorkerRun(j)) \/ on_worker_failed)
    /\ SF_vars(on_worker_finished)

(***************************************************************************)
(* Claims about ClipboardWatcher / AppController.                          *)
(***************************************************************************)
\* Jobs handed to the pool whose finished/failed signal the watcher has not handled yet.
Outstanding == Len(poolQueue) + Cardinality(poolActive) + Len(completions)
PoolJobs == {poolQueue[i] : i \in 1..Len(poolQueue)} \cup poolActive
SvgTexts == {normalize_svg_markup(t) : t \in UserTexts} \ {None}

\* C1: across start(), stop(), notifications, debounce expiries and completions the
\* watcher never has more than one job dispatched and not yet completed.
C1_AtMostOneOutstanding == Outstanding <= 1

\* C2: a newer SVG text b that is on the clipboard and pending while a job for another
\* text is in flight is eventually dispatched, unless the monitor is stopped, the user
\* changes the clipboard again, or b's hash is the last processed hash.
C2_WaitingFor(b) ==
    /\ running /\ in_flight
    /\ pending_svg = b
    /\ hasText(clipboard) /\ normalize_svg_markup(clipboard.text) = b
    /\ PoolJobs # {}
    /\ \A j \in PoolJobs : j.text # b
    /\ next_id <= MaxJobs
C2_Settled(b) ==
    \/ \E j \in PoolJobs : j.text = b
    \/ ~running
    \/ clipboard.by = "user"
          /\ ~(hasText(clipboard) /\ normalize_svg_markup(clipboard.text) = b)
    \/ Sha256(b) = last_processed_hash
C2_NewerNeverLost == \A b \in SvgTexts : C2_WaitingFor(b) ~> C2_Settled(b)

\* C3: a debounce expiry whose pending text has the hash of the last successfully
\* processed text dispatches no job (duplicate-hash short-circuit).
C3_DuplicateNotDispatched ==
    [][ (on_debounce_timeout /\ running /\ pending_svg # None
            /\ Sha256(pending_svg) = last_processed_hash)
        => UNCHANGED <<poolQueue, poolActive, in_flight, next_id, completions, emitted>> ]_vars
\* The expiry has just returned at the hash comparison: the text on the clipboard is the
\* pending text, no job is in flight, and its hash is the last processed one.
C3_Witness ==
    /\ last = "deb_return"
    /\ DebounceOutcome = "deb_duplicate"
    /\ emitted # <<>>

\* C4 (as claimed): the notification caused by the application's own clipboard write
\* never sets the pending text nor starts the debounce timer.
C4_OwnNotificationNeverAccepted ==
    [][ (on_clipboard_changed /\ Head(notifs) = "app")
        => UNCHANGED <<pending_svg, debounce>> ]_vars
\* C4 (amended): every clipboard write of a result is preceded by arming the suppression
\* window, and the notification caused by the write is ignored whenever it is delivered
\* inside the window or while the clipboard still holds the written image.
C4_NoFeedbackLoop ==
    [][ /\ on_worker_finished
          => (ignore_until' >= now + SuppressTicks /\ clipboard' = AppImage)
        /\ (on_clipboard_changed /\ Head(notifs) = "app"
               /\ (now < ignore_until \/ clipboard = AppImage))
          => UNCHANGED <<pending_svg, debounce, in_flight, poolQueue, next_id>> ]_vars
\* The notification of the application's own write has just been delivered and ignored.
C4_Witness ==
    /\ last = "notif_ignored"
    /\ clipboard = AppImage
    /\ notifs = <<>>
    /\ running

\* C5: converted/error signals are emitted in the order their jobs were dispatched, and
\* at most one conversion executes in the pool at any time.
C5_EmittedInDispatchOrder ==
    /\ \A i, k \in 1..Len(emitted) : i < k => emitted[i] < emitted[k]
    /\ Cardinality(poolActive) <= 1
\* Two jobs were dispatched and both results were emitted.
C5_Witness == emitted = <<1, 2>>

\* C6: handling a failed job leaves the watcher Listening (or Stopped) as it was, clears
\* the in-flight flag, emits exactly one error, and changes nothing the acceptance of a
\* later clipboard change depends on; a later expiry of accepted text dispatches it.
C6_FailureLeavesWatcherReady ==
    [][ /\ on_worker_failed
          => /\ running' = running
             /\ ~in_flight'
             /\ emitted' = Append(emitted, Head(completions).id)
             /\ UNCHANGED <<subscriptions, pending_svg, last_processed_hash, ignore_until,
                            converter, clipboard, notifs, poolQueue, poolActive>>
        /\ (on_debounce_timeout /\ running /\ pending_svg # None /\ ~in_flight
               /\ hasText(clipboard) /\ normalize_svg_markup(clipboard.text) = pending_svg
               /\ Sha256(pending_svg) # last_processed_hash)
          => /\ in_flight'
             /\ poolQueue' = Append(poolQueue, Job(next_id, pending_svg)) ]_vars
\* Job 1 failed (its error was emitted, no hash was recorded) and a later clipboard
\* change has just been dispatched.
C6_Witness ==
    /\ emitted = <<1>>
    /\ last_processed_hash = None
    /\ last = "deb_dispatch"
    /\ running
    /\ next_id = 3

\* ---- claims on SvgToPngConverter.convert (checked under SpecConvert) ----
Budget == cv.cfg.max_output_png_bytes

\* C7: in a convert() call with a byte budget > 0 the rasterizer is run at most 6
\* times, whatever sizes its outputs have; the size requested for every attempt is
\* at least 1x1, and so are the width and height of a returned result.
C7_LoopBoundedAndAtLeastOnePixel ==
    Budget > 0 =>
        /\ cv.invoked <= 6
        /\ cv.attempt <= 6
        /\ cv.pc = "render" => (cv.attempt < 6 /\ cv.render_w >= 1 /\ cv.render_h >= 1)
        /\ cv.pc = "done" => (cv.result.width_px >= 1 /\ cv.result.height_px >= 1)

\* C7 witness: a call under a budget that ran the rasterizer six times, shrinking
\* down to 1x1, and returned that last output
C7_Witness ==
    /\ Budget > 0
    /\ cv.pc = "done"
    /\ cv.invoked = 6
    /\ cv.result.width_px = 1
    /\ cv.result.height_px = 1

\* C8: under a byte budget > 0 a returned result is no longer than the budget (fresh
\* or from the cache), and a call whose last output is still over the budget ends
\* with the size-limit error, never with a result.
C8_ResultWithinBudgetOrSizeLimit ==
    /\ (Budget > 0 /\ cv.pc = "done") => cv.result.png_bytes.len <= Budget
    /\ (Budget > 0 /\ cv.pc = "store") => cv.composed.len <= Budget
    /\ cv.error = "size_limit" =>
           (cv.pc = "raised" /\ Budget > 0 /\ cv.composed.len > Budget)

\* C8 witness: the size-limit error raised before the sixth attempt, because the next
\* size equals the current one and the output is still over the budget
C8_Witness ==
    /\ cv.pc = "raised"
    /\ cv.error = "size_limit"
    /\ cv.invoked < 6
    /\ cv.composed.len > Budget

\* C9 (as stated): the width and height of every returned result are the IHDR width
\* and height of the PNG bytes returned with it.
C9_DimensionsMatchPng ==
    cv.pc = "done" =>
        /\ cv.result.width_px = cv.result.png_bytes.w
        /\ cv.result.height_px = cv.result.png_bytes.h

\* C10: a lookup that finds the cache key returns the stored bytes, width and height
\* with render_ms 0 and no rasterizer run (the capability probe included); a
\* lookup that misses goes on to render; a successful call with the cache on leaves its
\* bytes and final size under the key it looked up.
C10_HitReturnsEntryMissStores ==
    [][/\ (cv.pc = "lookup" /\ cv' # cv) =>
            IF cache.on /\ LruHas(cache, cv.cache_key)
            THEN LET entry == cache.data[LruIndex(cache, cv.cache_key)][2]
                 IN /\ cv'.pc = "done"
                    /\ cv'.result.png_bytes = entry[1]
                    /\ cv'.result.width_px = entry[2]
                    /\ cv'.result.height_px = entry[3]
                    /\ cv'.result.render_ms = 0
                    /\ cv'.invoked = 0
                    /\ caps' = caps
            ELSE cv'.pc = "render" /\ cv'.invoked = 0
       /\ (cv.pc = "store" /\ cv' # cv) =>
            /\ cv'.pc = "done"
            /\ cv'.result.render_ms > 0
            /\ cache.on =>
                 /\ LruHas(cache', cv.cache_key)
                 /\ LruGetValue(cache', cv.cache_key)
                      = <<cv'.result.png_bytes, cv'.result.width_px, cv'.result.height_px>>
                 /\ cv.cache_key = CacheKey(cv.svg, cv.cfg, cv.width_px, cv.height_px)
      ]_vars

\* C10 witness: the second call of a behaviour returned from the cache what the first
\* call had rendered and stored
C10_Witness ==
    /\ calls = 2
    /\ cv.pc = "done"
    /\ cv.hit
    /\ cv.result.render_ms = 0
    /\ cv.result.png_bytes # NoPng
    /\ cv.invoked = 0


(***************************************************************************)
(* Claims about LruCache (checked under SpecLru).                          *)
(***************************************************************************)
LruKeySet(c) == {c.data[i][1] : i \in 1..Len(c.data)}
LruItems(c) == {c.data[i] : i \in 1..Len(c.data)}

\* C11: whatever gets and puts were made, a cache of capacity N >= 1 holds at most N
\* entries, one per key; a put on a key already present replaces its value and leaves
\* the number of entries unchanged.
C11_AtMostCapacity ==
    /\ [](/\ cache.max_items >= 1
          /\ Len(cache.data) <= cache.max_items
          /\ Cardinality(LruKeySet(cache)) = Len(cache.data))
    /\ [][(fcall'.fn = "put" /\ LruHas(cache, fcall'.arg[1])) =>
             /\ Len(cache'.data) = Len(cache.data)
             /\ LruKeySet(cache') = LruKeySet(cache)
             /\ LruGetValue(cache', fcall'.arg[1]) = fcall'.arg[2]]_vars

\* C11 witness: a put on a key already present in a full cache of capacity two, giving
\* the key a new value
C11_Witness ==
    /\ fcall.fn = "put"
    /\ fcall.had
    /\ cache.max_items = 2
    /\ Len(cache.data) = 2
    /\ LruGetValue(cache, fcall.arg[1]) = "v2"
    /\ \E i \in 1..2 : cache.data[i][2] = "v1"

\* the key of the cache accessed (by a get that hit, or a put) longest ago
LeastRecent(c) ==
    accessed[CHOOSE i \in 1..Len(accessed) :
                /\ accessed[i] \in LruKeySet(c)
                /\ \A j \in 1..(i - 1) : accessed[j] \notin LruKeySet(c)]

\* C12: a put of a new key into a full cache evicts exactly the least recently accessed
\* entry and keeps the others; a get that hits returns the value, keeps the entries and
\* makes its key the most recent, so the insert of a new key right after it does not
\* evict that key when the capacity is at least two; a get that misses changes nothing.
C12_EvictsLeastRecentlyAccessed ==
    [][LET k == fcall'.arg[1]
       IN /\ (fcall'.fn = "put" /\ ~LruHas(cache, k) /\ Len(cache.data) = cache.max_items) =>
                /\ LruItems(cache') =
                     {it \in LruItems(cache) : it[1] # LeastRecent(cache)}
                       \cup {<<k, fcall'.arg[2]>>}
                /\ Len(cache'.data) = cache.max_items
          /\ (fcall'.fn = "put" /\ ~LruHas(cache, k) /\ Len(cache.data) < cache.max_items) =>
                LruItems(cache') = LruItems(cache) \cup {<<k, fcall'.arg[2]>>}
          /\ (fcall'.fn = "get" /\ LruHas(cache, k)) =>
                /\ fcall'.ret = LruGetValue(cache, k)
                /\ LruItems(cache') = LruItems(cache)
                /\ cache'.data[Len(cache'.data)][1] = k
                /\ (Len(cache.data) >= 2 => LeastRecent(cache)' # k)
          /\ (fcall'.fn = "get" /\ ~LruHas(cache, k)) =>
                /\ fcall'.ret = None
                /\ cache' = cache
          /\ (/\ fcall.fn = "get" /\ fcall.had
              /\ fcall'.fn = "put" /\ ~LruHas(cache, k)
              /\ cache.max_items >= 2) =>
                LruHas(cache', fcall.arg[1])
      ]_vars

\* C12 witness: in a full cache of capacity two the older key was read and a new key was
\* then inserted: the key read is still there, with the new one
C12_Witness ==
    /\ cache.max_items = 2
    /\ fcall.fn = "put"
    /\ ~fcall.had
    /\ accessed = <<2, 1, 3>>
    /\ LruKeySet(cache) = {1, 3}

(***************************************************************************)
(* Claims about normalize_svg_markup (checked under SpecDetect).           *)
(***************************************************************************)
\* what the contract gives for text t: from the first opening tag through the last
\* closing tag, None when a tag is missing or nothing lies between them
FirstOpenToLastClose(t) ==
    LET opens  == {i \in 1..Len(t) : t[i] \in {"<svg", "<SVG"}}
        closes == {j \in 1..Len(t) : t[j] \in {"</svg>", "</SVG >"}}
    IN IF opens = {} \/ closes = {} THEN None
       ELSE LET i == CHOOSE a \in opens : \A b \in opens : a <= b
                j == CHOOSE a \in closes : \A b \in closes : a >= b
            IN IF j < i THEN None ELSE [k \in 1..(j - i + 1) |-> t[i + k - 1]]

\* C17: the text accepted as SVG is the part from the first '<svg' through the last
\* '</svg>', with no white space around it; it is the not-SVG signal when a tag is
\* missing, when the last closing tag precedes the first opening tag, and, in the
\* watcher, when the text is longer than the configured maximum.  The text with a
\* preamble and trailing text gives '<svg></svg>', 'hello' gives not-SVG.
C17_FirstOpenThroughLastClose ==
    LET t == fcall.arg[1]
    IN /\ fcall.fn = "normalize_svg_markup" =>
            /\ fcall.ret = FirstOpenToLastClose(t)
            /\ fcall.ret # None =>
                 (fcall.ret[1] # "sp" /\ fcall.ret[Len(fcall.ret)] # "sp")
            /\ t = TextPreamble => fcall.ret = <<"<svg", "</svg>">>
            /\ t = TextHello => fcall.ret = None
       /\ fcall.fn = "accept" =>
            fcall.ret = IF Len(t) > max_svg_chars THEN None ELSE FirstOpenToLastClose(t)

\* C17 witness: the text of the test, with a preamble and trailing text
C17_Witness ==
    /\ fcall.fn = "normalize_svg_markup"
    /\ fcall.arg[1] = TextPreamble
    /\ fcall.ret = <<"<svg", "</svg>">>

(***************************************************************************)
(* Claims about the cache key (checked under SpecKey).                     *)
(***************************************************************************)
\* C13 (as stated): two calls compute the same key exactly when text, dpi, background,
\* resolved target size and byte budget are equal; every setting that changes the pixels
\* of the output (border trim included) is then equal too, and a change of timeout,
\* debounce interval or save location alone never changes the key.
C13_KeyCoversPixelSettings ==
    fcall.fn = "cache_key" =>
        LET svg1 == fcall.arg[1]
            c1   == fcall.arg[2]
            svg2 == fcall.arg[3]
            c2   == fcall.arg[4]
            px1  == compute_output_px(svg1, c1.dpi, c1.max_output_dim_px)
            px2  == compute_output_px(svg2, c2.dpi, c2.max_output_dim_px)
            same == fcall.ret[1] = fcall.ret[2]
        IN /\ same <=> (/\ svg1 = svg2
                        /\ c1.dpi = c2.dpi
                        /\ c1.background_hex = c2.background_hex
                        /\ px1 = px2
                        /\ c1.max_output_png_bytes = c2.max_output_png_bytes)
           /\ same => (/\ c1.trim_border = c2.trim_border
                       /\ c1.trim_tolerance = c2.trim_tolerance)
           /\ (svg1 = svg2 /\ c2 = [c1 EXCEPT !.conversion_timeout_s = c2.conversion_timeout_s,
                                              !.debounce_ms = c2.debounce_ms,
                                              !.save_dir = c2.save_dir]) => same

(***************************************************************************)
(* Further claims on SvgToPngConverter (checked under SpecConvert).        *)
(***************************************************************************)
InCall == cv.pc \in {"lookup", "render", "store"}

\* C14: a convert() call takes its settings from one configuration, the one installed
\* when it took its snapshot: target size and cache key are computed from it, every
\* rasterizer run, trim and budget test reads it, and a set_config() during the call
\* changes neither the snapshot nor the call; the next call's snapshot is the
\* configuration installed by then.
C14_OneSnapshotPerCall ==
    /\ [](/\ cv.invoked > 0 => cv.used = cv.cfg
          /\ cv.pc \in {"lookup", "render", "store", "done", "raised"} =>
               /\ <<cv.width_px, cv.height_px>> =
                    compute_output_px(cv.svg, cv.cfg.dpi, cv.cfg.max_output_dim_px)
               /\ cv.cache_key = CacheKey(cv.svg, cv.cfg, cv.width_px, cv.height_px))
    /\ [][/\ (InCall /\ cv' # cv) => (cv'.cfg = cv.cfg /\ cfg' = cfg)
          /\ (cv.pc = "snapshot" /\ cv' # cv) => cv'.cfg = cfg
          /\ cfg' # cfg => cv' = cv]_vars

\* C14 witness: a call that rendered twice under a byte budget with border trim on and
\* returned, although set_config() had installed a configuration without budget while
\* it ran
C14_Witness ==
    /\ cv.pc = "done"
    /\ cv.invoked >= 2
    /\ cv.cfg.trim_border
    /\ cv.used = cv.cfg
    /\ cfg = DefaultCfg
    /\ sc = "idle"

\* C16: when set_config() returns, the converter holds a new cache with no entries, of
\* the capacity just configured, or none when caching is off: nothing is carried over,
\* so no entry stored before the change can be returned afterwards.  The first half of
\* set_config() leaves the cache alone.
C16_RebuildGivesEmptyCache ==
    [][/\ (sc = "rebuild" /\ sc' = "idle") =>
            /\ cache'.data = <<>>
            /\ cache'.on = cfg.cache_enabled
            /\ cache'.on => cache'.max_items = cfg.cache_max_items
            /\ cfg' = cfg
       /\ (sc = "idle" /\ sc' = "rebuild") => cache' = cache
      ]_vars

\* C16 witness: the second call was served from the cache of capacity one; set_config()
\* then changed the capacity to two and the cache is empty
C16_Witness ==
    /\ calls = 2
    /\ cv.pc = "done"
    /\ cv.hit
    /\ cv.cfg.cache_max_items = 1
    /\ sc = "idle"
    /\ cfg.cache_max_items = 2
    /\ cache = LruCache(2)

(***************************************************************************)
(* Further claims on ClipboardWatcher (checked under Spec).                *)
(***************************************************************************)
\* C15: while the watcher is stopped nothing is pending and the debounce timer is
\* inactive; text becomes pending only when a running watcher accepts a clipboard
\* notification, and a job is dispatched only by a running watcher for the text then
\* pending.  So nothing is dispatched after stop() before start() and a newly accepted
\* notification, and text pending before stop() is not dispatched later.
C15_StopClearsPending ==
    /\ [](~running => (pending_svg = None /\ debounce = "off"))
    /\ [][/\ (pending_svg' # pending_svg /\ pending_svg' # None) =>
               (running /\ running' /\ last' = "notif_accept" /\ notifs' = Tail(notifs))
          /\ next_id' # next_id =>
               /\ running
               /\ pending_svg # None
               /\ poolQueue' = Append(poolQueue, Job(next_id, pending_svg))
         ]_vars

\* C15 witness: a job was running with the rerun flag set when the watcher was stopped
\* and started again; the job has reported and the rerun timer is armed, with nothing
\* pending for it to dispatch
C15_Witness ==
    /\ running
    /\ pending_svg = None
    /\ debounce = "zero"
    /\ last \in {"finished", "failed"}
    /\ emitted # <<>>

(***************************************************************************)
(* Claims about the size functions (checked under SpecSize).               *)
(***************************************************************************)
\* the size before any clamp, for a sized document
Unclamped(css, dpi) ==
    <<IF (css.width_px * dpi) \div 96000 < 1 THEN 1 ELSE RoundHalfEven(css.width_px * dpi, 96000),
      IF (css.height_px * dpi) \div 96000 < 1 THEN 1 ELSE RoundHalfEven(css.height_px * dpi, 96000)>>

\* C18 (as stated): for every SVG text, dpi >= 1 and max_dim_px >= 0, compute_output_px
\* returns a width and a height, both at least 1; with max_dim_px > 0 the larger one
\* is at most max_dim_px, and equal to it when the size was clamped; with max_dim_px = 0
\* the size is not clamped.  100x50 at dpi 192 gives (200,100) under 1000, and a larger
\* side of 120 under 120.
C18_AtLeastOneAndClamped ==
    fcall.fn = "compute_output_px" =>
        LET svg == fcall.arg[1]
            dpi == fcall.arg[2]
            max_dim_px == fcall.arg[3]
            r == fcall.ret
        IN /\ r # OverflowError
           /\ r[1] >= 1
           /\ r[2] >= 1
           /\ LET u == Unclamped(parse_svg_css_size(svg), dpi)
                  clamped == max_dim_px > 0 /\ Max2(u[1], u[2]) > max_dim_px
              IN /\ max_dim_px > 0 => Max2(r[1], r[2]) <= max_dim_px
                 /\ clamped => Max2(r[1], r[2]) = max_dim_px
                 /\ ~clamped => r = u
           /\ (svg = SvgText(<<<<"width", <<100000, "">>>>, <<"height", <<50000, "px">>>>>>)
               /\ dpi = 192) =>
                 /\ max_dim_px = 1000 => r = <<200, 100>>
                 /\ max_dim_px = 120 => Max2(r[1], r[2]) = 120

\* the root tag's own attribute of that name, in any case
OwnAttr(attrs, names) ==
    LET idx == {i \in 1..Len(attrs) : attrs[i][1] \in names}
    IN IF idx = {} THEN None ELSE attrs[CHOOSE i \in idx : \A k \in idx : i <= k][2]

\* a length in a supported unit, in thousandths of a pixel; None otherwise
Resolved(v) ==
    IF v = None THEN None
    ELSE IF v[2] \in {"", "px", "PX"} THEN <<v[1]>>
    ELSE IF v[2] = "in" THEN <<v[1] * 96>>
    ELSE IF v[2] = "pt" THEN <<(v[1] * 96) \div 72>>
    ELSE IF v[2] = "pc" THEN <<v[1] * 16>>
    ELSE IF v[2] \in {"mm", "MM"} THEN <<(v[1] * 960) \div 254>>
    ELSE IF v[2] = "cm" THEN <<(v[1] * 9600) \div 254>>
    ELSE None

\* C19 (as stated): parse_svg_css_size returns the root tag's width and height when both
\* resolve to positive lengths in a supported unit; otherwise the 3rd and 4th number
\* of the viewBox when there are four and both are positive; otherwise 300x150.  A
\* width whose height does not resolve contributes nothing.
C19_WidthHeightThenViewBoxThenDefault ==
    fcall.fn = "parse_svg_css_size" =>
        LET attrs == fcall.arg[1].attrs
            w  == Resolved(OwnAttr(attrs, {"width", "WIDTH"}))
            h  == Resolved(OwnAttr(attrs, {"height", "Height"}))
            vb == OwnAttr(attrs, {"viewBox", "viewbox"})
        IN fcall.ret =
             IF ~fcall.arg[1].has_tag THEN [width_px |-> 300000, height_px |-> 150000]
             ELSE IF w # None /\ h # None /\ w[1] > 0 /\ h[1] > 0
                  THEN [width_px |-> w[1], height_px |-> h[1]]
             ELSE IF vb # None /\ Len(vb) = 4 /\ vb[3] > 0 /\ vb[4] > 0
                  THEN [width_px |-> vb[3], height_px |-> vb[4]]
             ELSE [width_px |-> 300000, height_px |-> 150000]

(***************************************************************************)
(* Claims about the PNG header parser (checked under SpecPng).             *)
(***************************************************************************)
\* C20: the parser returns (0,0) for every input shorter than 24 bytes, with a wrong
\* 8-byte signature or with a first chunk type other than IHDR; for every other input
\* it returns the unsigned big-endian 32-bit numbers at byte offsets 16 and 20 (given
\* here as their 16-bit halves: most significant byte first, never negative).
C20_PngDimensions ==
    fcall.fn = "parse_png_dimensions" =>
        LET b == fcall.arg[1]
            bad == \/ Len(b) < 24
                   \/ \E i \in 1..8 : b[i] # <<137, 80, 78, 71, 13, 10, 26, 10>>[i]
                   \/ \E i \in 1..4 : b[12 + i] # <<73, 72, 68, 82>>[i]
            U16(i) == 256 * b[i] + b[i + 1]
        IN IF bad THEN fcall.ret = <<<<0, 0>>, <<0, 0>>>>
           ELSE /\ fcall.ret = <<<<U16(17), U16(19)>>, <<U16(21), U16(23)>>>>
                /\ \A k \in 1..2, m \in 1..2 : fcall.ret[k][m] \in 0..65535

\* C20 witness: a well-formed header whose width has its top bit set and whose height
\* is 258
C20_Witness ==
    /\ fcall.fn = "parse_png_dimensions"
    /\ Len(fcall.arg[1]) >= 24
    /\ fcall.ret = <<<<32768, 0>>, <<0, 258>>>>

(***************************************************************************)
(* Claims about the clipboard write (checked under SpecClip).              *)
(***************************************************************************)
InSeq(x, q) == \E i \in 1..Len(q) : q[i] = x

\* C21: every native write that returns has set the "PNG" format; the bitmap-v5 format is
\* set only when width * height * 4 is within the ceiling passed, and only after the PNG
\* format, in the same session (wrote_dibv5 implies wrote_png).
C21_PngAlwaysDibv5WithinCeiling ==
    /\ wc.ret = "stats" => wc.wrote_png /\ wc.opened = 1
    /\ (wc.ret = "stats" /\ wc.app # "done") => nclip # <<>> /\ nclip[1] = "PNG"
    /\ wc.wrote_dibv5 =>
         /\ wc.wrote_png
         /\ wc.also_set_dibv5
         /\ wc.width_px * wc.height_px * 4 <= wc.max_dibv5_bytes
    /\ InSeq("CF_DIBV5", nclip) =>
         /\ nclip = <<"PNG", "CF_DIBV5">>
         /\ wc.width_px * wc.height_px * 4 <= wc.max_dibv5_bytes

\* C21 witness: a write by the application that returned with both formats set, for an
\* image whose bitmap is exactly as large as the ceiling
C21_Witness ==
    /\ wc.caller = "app" /\ wc.ret = "stats"
    /\ wc.width_px * wc.height_px * 4 = max_dib_bytes
    /\ wc.wrote_dibv5
    /\ nclip = <<"PNG", "CF_DIBV5">>

\* C22: OpenClipboard is attempted at most open_retries times; when every attempt fails
\* (also with open_retries = 0) the call raises the busy error having emptied nothing,
\* set no format and closed no session; after a successful attempt there is no other.
C22_BoundedOpenThenBusy ==
    /\ [](/\ wc.tries <= wc.open_retries
          /\ wc.opened <= 1
          /\ wc.ret = "busy" =>
               /\ wc.tries = wc.open_retries
               /\ wc.opened = 0 /\ wc.closes = 0
               /\ ~wc.emptied /\ ~wc.wrote_png /\ ~wc.wrote_dibv5
               /\ wc.app # "done" => nclip = <<"CF_UNICODETEXT">>)
    /\ [][wc.opened = 1 => wc'.tries = wc.tries]_vars

\* C22 witness: the largest number of attempts a direct caller allows, all failed
C22_Witness ==
    /\ wc.caller = "direct" /\ wc.ret = "busy"
    /\ wc.open_retries = MaxOpenRetries /\ wc.tries = MaxOpenRetries

\* C23: a session that was opened is closed exactly once by the time the call returns or
\* raises; a failure of EmptyClipboard or of setting either format reaches the caller as
\* an error, never as a returned result; and once _write_png_to_clipboard is done after
\* such a failure the clipboard holds the PNG written through the Qt path.
C23_ClosedOnceErrorSurfacedFallback ==
    /\ wc.closes <= wc.opened
    /\ wc.pc \in {"returned", "raised"} => wc.closes = wc.opened /\ ~wc.session
    /\ (wc.pc \in {"returned", "raised"} /\ wc.error # "") => wc.pc = "raised" /\ wc.ret # "stats"
    /\ wc.ret = "stats" => wc.error = ""
    /\ (wc.caller = "app" /\ wc.app = "done" /\ wc.ret # "stats") =>
         nclip # <<>> /\ nclip[1] = "image/png"

\* C23 witness: the application's write emptied the clipboard, failed to set the PNG
\* format, closed the session and then wrote through the Qt path
C23_Witness ==
    /\ wc.caller = "app" /\ wc.app = "done"
    /\ wc.emptied /\ wc.error = "set_png"
    /\ wc.closes = 1
    /\ nclip = <<"image/png", "image">>

(***************************************************************************)
(* Claims about the rasterizer call (checked under SpecConvert).           *)
(***************************************************************************)
\* C24: the renderer returns bytes only when the process exited with code 0 in time and
\* the output file exists with a size > 0, and then the bytes are those of the file, never
\* empty; a timeout gives the timeout error; a non-zero exit, a missing or a zero-byte
\* file gives a render error; after either error convert() runs the rasterizer no more
\* in that call.
C24_BytesOnlyFromGoodRunNoRetry ==
    /\ [](cv.invoked > 0 =>
           /\ cv.raw # NoPng <=>
                (~cv.proc.timed_out /\ cv.proc.returncode = 0 /\ cv.proc.exists
                 /\ cv.proc.size > 0)
           /\ cv.raw # NoPng => cv.raw.len = cv.proc.size /\ cv.raw.len > 0 /\ cv.error # "render"
                                /\ cv.error # "timeout"
           /\ cv.proc.timed_out <=> cv.error = "timeout"
           /\ (~cv.proc.timed_out /\ (cv.proc.returncode # 0 \/ ~cv.proc.exists \/ cv.proc.size = 0))
                <=> cv.error = "render"
           /\ cv.error \in {"timeout", "render"} => cv.pc = "raised")
    /\ [][cv.error \in {"timeout", "render"} =>
            \/ cv' = cv
            \/ calls' = calls + 1 /\ cv'.invoked = 0]_vars

\* C24 witness: the second run of the rasterizer in a call left a zero-byte file, and the
\* call raised the render error
C24_Witness ==
    /\ cv.invoked = 2
    /\ cv.proc = Proc(FALSE, 0, TRUE, 0)
    /\ cv.error = "render" /\ cv.pc = "raised"

(***************************************************************************)
(* Claims about the capability probe (checked under SpecProbe).            *)
(***************************************************************************)
\* C25: over any number of render calls of one renderer, racing or not, the probe runs at
\* most once, also when it fails; the set it cached never changes, and every call that
\* got past the probe holds that set.
C25_ProbedAtMostOnce ==
    /\ [](/\ pr.probes <= 1
          /\ pr.probes = 1 <=> caps # Unprobed
          /\ \A t \in Threads : pr.th[t].pc = "render" => pr.th[t].caps = caps /\ caps # Unprobed)
    /\ [][caps # Unprobed => caps' = caps]_vars

\* C25 witness: two calls raced on the first use, the probe failed, and both calls are
\* rendering with the empty set
C25_Witness ==
    /\ pr.renders = 2
    /\ \A t \in Threads : pr.th[t].pc = "render" /\ pr.th[t].caps = {}
    /\ pr.probes = 1

(***************************************************************************)
(* Claims about atomic_write_bytes (checked under SpecAtomicWrite).        *)
(***************************************************************************)
\* path holds what it held before the call until the rename, and exactly data after it;
\* the call returns only after the rename
PathNeverPartial ==
    /\ fs.path = IF aw.replaced THEN File(aw.data) ELSE aw.old
    /\ aw.pc = "returned" => aw.replaced /\ fs.path = File(aw.data)

\* C26 (as stated): on success path holds exactly data; path never holds a partial
\* write; after success and after failure no temporary file of the call remains.
C26_AtomicNoTempLeft ==
    /\ PathNeverPartial
    /\ aw.pc \in {"returned", "raised"} => fs.tmp = NoFile

\* C26 (amended): on success path holds exactly data and no temporary file remains; path
\* never holds a partial write; after a failure the temporary file remains only if
\* removing it failed as well, which is not reported.
C26_AtomicTempLeftOnlyIfUnlinkFails ==
    /\ PathNeverPartial
    /\ aw.pc = "returned" => fs.tmp = NoFile /\ ~aw.unlink_failed
    /\ aw.pc = "raised" => (fs.tmp # NoFile <=> aw.unlink_failed)

\* C26 witness: the write failed after two of three bytes, over an existing file, and the
\* temporary file was removed
C26_Witness ==
    /\ aw.pc = "raised" /\ aw.failed = "write"
    /\ aw.data = <<1, 2, 3>> /\ aw.written = 2
    /\ fs = [path |-> File(<<9, 9>>), tmp |-> NoFile]

(***************************************************************************)
(* Claims about cached results and border trim (checked under SpecConvert).*)
(***************************************************************************)
\* C27 (as stated): under every interleaving of convert() and set_config(), a cache hit
\* returns an entry that was stored by a call with the same trim_border and
\* trim_tolerance as the snapshot of the call that hits.
C27_HitHasSameTrimSettings ==
    [][(cv.pc = "lookup" /\ cv'.hit) =>
          \A m \in cache.made :
              m[1] = cv.cache_key =>
                  m[2] = cv.cfg.trim_border /\ m[3] = cv.cfg.trim_tolerance]_vars

(***************************************************************************)
(* Claims about results and the clipboard, stop() and bursts (checked      *)
(* under Spec).                                                            *)
(***************************************************************************)
\* the step in which _on_worker_finished handles a result (and _on_converted writes it)
ResultHandled ==
    /\ completions # <<>>
    /\ Head(completions).kind = "finished"
    /\ completions' = Tail(completions)
    /\ emitted' = Append(emitted, Head(completions).id)

\* C28 (as stated): a job's PNG replaces the clipboard only if the clipboard still holds
\* the SVG text the job converted.
C28_WrittenOnlyOverItsOwnText ==
    [][(ResultHandled /\ clipboard' = AppImage) =>
          /\ hasText(clipboard)
          /\ Sha256(normalize_svg_markup(clipboard.text)) = Head(completions).svg_hash]_vars

\* C29 (as stated): while the watcher is stopped no conversion result is emitted, the
\* application writes nothing to the clipboard, and the last processed hash does not
\* change, also when a job that was in flight at stop() completes.
C29_NothingHappensWhileStopped ==
    [][~running =>
          /\ ~ResultHandled
          /\ notifs' # Append(notifs, "app")
          /\ last_processed_hash' = last_processed_hash]_vars

\* C30: an accepted change stores its text as pending, (re)starts the debounce timer and
\* dispatches nothing; a job is dispatched only by an expiry of the timer, one job per
\* expiry, and it carries the pending text, which is the text of the last accepted
\* change of the burst.
C30_OneJobPerBurstWithLastText ==
    [][/\ (notifs # <<>> /\ notifs' = Tail(notifs) /\ last' = "notif_accept") =>
            /\ pending_svg' = normalize_svg_markup(clipboard.text)
            /\ debounce' = "interval"
            /\ next_id' = next_id /\ poolQueue' = poolQueue
            /\ burst' = IF debounce = "off" THEN 1 ELSE Min2(burst + 1, MaxBurst)
       /\ next_id' # next_id =>
            /\ debounce # "off" /\ debounce' = "off"
            /\ next_id' = next_id + 1
            /\ poolQueue' = Append(poolQueue, Job(next_id, pending_svg))
            /\ pending_svg' = pending_svg
      ]_vars

\* C30 witness: two changes were accepted one after the other before the timer expired,
\* the first with text A and the second with text B, and the only job dispatched so far
\* carries B
C30_Witness ==
    /\ burst = 2
    /\ last = "deb_dispatch"
    /\ next_id = 2
    /\ poolQueue = <<Job(1, TextB)>>


(***************************************************************************)
(* Steps of the watcher's handlers, recognised by what they consume.       *)
(***************************************************************************)
TimeoutStep == debounce # "off" /\ debounce' = "off" /\ running' = running
DeliveryStep == notifs # <<>> /\ notifs' = Tail(notifs)
CompletionStep == completions # <<>> /\ completions' = Tail(completions)
ClipboardMismatch ==
    \/ ~hasText(clipboard)
    \/ normalize_svg_markup(clipboard.text) = None
    \/ normalize_svg_markup(clipboard.text) # pending_svg

\* C31: a job is dispatched only by the timer's expiry, and its text is the pending text
\* and the normalized text the clipboard holds at that moment; when the clipboard then has
\* no text, is not SVG, or differs from the pending text, the expiry dispatches nothing
\* and emits no error.
C31_DispatchedTextIsPendingAndClipboard ==
    [][/\ next_id' # next_id => TimeoutStep
       /\ TimeoutStep =>
            /\ next_id' # next_id =>
                 /\ hasText(clipboard)
                 /\ pending_svg # None
                 /\ pending_svg = normalize_svg_markup(clipboard.text)
                 /\ poolQueue' = Append(poolQueue, Job(next_id, pending_svg))
            /\ ClipboardMismatch =>
                 /\ next_id' = next_id
                 /\ poolQueue' = poolQueue
                 /\ in_flight' = in_flight
                 /\ emitted' = emitted]_vars

\* C31 witness: the timer expired while Listening and idle, with a pending text and a
\* clipboard holding another SVG text, and nothing was dispatched or reported.
C31_Witness ==
    /\ last = "deb_return"
    /\ running /\ ~in_flight
    /\ pending_svg = TextA
    /\ clipboard = MimeText(TextB)
    /\ debounce = "off"
    /\ next_id = 1
    /\ emitted = <<>>

IgnoredReason ==
    \/ ~running
    \/ now < ignore_until
    \/ hasImage(clipboard)
    \/ ~hasText(clipboard)
    \/ clipboard.text = <<>>
    \/ Len(clipboard.text) > max_svg_chars
    \/ normalize_svg_markup(clipboard.text) = None

\* C32: a notification that is ignored (suppression window, image, no text, text longer
\* than max_svg_chars, not SVG) leaves the pending text, the timer, the in-flight flag, the
\* rerun flag and the last processed hash as they were, dispatches nothing and emits no
\* error.
C32_IgnoredNotificationChangesNothing ==
    [][(DeliveryStep /\ (subscriptions = 0 \/ IgnoredReason)) =>
           /\ last' # "notif_accept"
           /\ UNCHANGED <<pending_svg, debounce, in_flight, rerun_after_flight,
                          last_processed_hash, emitted, poolQueue, next_id>>]_vars

\* C32 witness: a too-long text was ignored while an earlier text is pending and its
\* timer is still armed.
C32_Witness ==
    /\ last = "notif_ignored"
    /\ running
    /\ clipboard = MimeText(TextBig)
    /\ pending_svg = TextA
    /\ debounce = "interval"

\* C33: a completion clears the rerun flag and dispatches nothing by itself; it arms the
\* timer with zero delay when the watcher is Listening and the flag was set, and otherwise
\* leaves the timer alone; the timer is armed from rest only by an accepted notification
\* or by such a flagged completion.
C33_RerunArmedOnlyWhenFlagged ==
    [][/\ CompletionStep =>
            /\ rerun_after_flight' = FALSE
            /\ next_id' = next_id
            /\ poolQueue' = poolQueue
            /\ debounce' = IF running /\ rerun_after_flight THEN "zero" ELSE debounce
       /\ (debounce = "off" /\ debounce' # "off") =>
            \/ DeliveryStep /\ last' = "notif_accept"
            \/ CompletionStep /\ running /\ rerun_after_flight]_vars

\* C33 witness: a failed job completed with the flag set and the timer is armed with
\* zero delay, the flag cleared.
C33_Witness ==
    /\ last = "failed"
    /\ running /\ ~in_flight
    /\ ~rerun_after_flight
    /\ debounce = "zero"

\* C34: the last processed hash changes only at a successful completion, to the hash the
\* result carries; a failed completion leaves it, so an expiry that finds the failed text
\* again pending and on the clipboard dispatches it again.
C34_HashOnlyFromSuccess ==
    [][/\ last_processed_hash' # last_processed_hash =>
            /\ CompletionStep
            /\ Head(completions).kind = "finished"
            /\ last_processed_hash' = Head(completions).svg_hash
       /\ (CompletionStep /\ Head(completions).kind = "failed") =>
            last_processed_hash' = last_processed_hash
       /\ (/\ TimeoutStep /\ running /\ ~in_flight /\ pending_svg # None
           /\ ~ClipboardMismatch
           /\ Sha256(pending_svg) # last_processed_hash
           /\ converter # "none") =>
            poolQueue' = Append(poolQueue, Job(next_id, pending_svg))]_vars

\* C34 witness: job 1 failed, no hash was recorded, and the same text has been dispatched
\* again as job 2.
C34_Witness ==
    /\ emitted = <<1>>
    /\ last_processed_hash = None
    /\ pending_svg = TextA
    /\ poolQueue = <<Job(2, TextA)>>

SeqCount(s, id) == Cardinality({i \in 1..Len(s) : s[i] = id})
SignalCount(id) ==
    Cardinality({i \in 1..Len(poolQueue) : poolQueue[i].id = id})
    + Cardinality({j \in poolActive : j.id = id})
    + Cardinality({i \in 1..Len(completions) : completions[i].id = id})
    + SeqCount(emitted, id)

\* C36: every dispatched job is, at any moment, exactly one of: queued, running, a single
\* finished-or-failed signal waiting for the watcher, or a single handled signal; and
\* whenever the in-flight flag is set it is eventually cleared.
C36_OneSignalPerJobThenCleared ==
    /\ [](\A id \in 1..(next_id - 1) : SignalCount(id) = 1)
    /\ []<>(~in_flight)

\* C36 witness: job 1 was dispatched, ran, its one signal was handled, and the flag is
\* clear with nothing outstanding.
C36_Witness ==
    /\ next_id = 2
    /\ emitted = <<1>>
    /\ last = "finished"
    /\ running /\ ~in_flight
    /\ poolQueue = <<>> /\ poolActive = {} /\ completions = <<>>

\* C38: the slot is connected exactly once while Listening and not at all while Stopped,
\* and the number of connections changes only when the state changes (start() when
\* Listening and stop() when Stopped change nothing).
C38_OneSubscriptionIffListening ==
    /\ [](subscriptions = IF running THEN 1 ELSE 0)
    /\ [][subscriptions' # subscriptions => running' # running]_vars

\* C38 witness: the watcher was started, dispatched a job, was stopped, and holds no
\* connection.
C38_Witness ==
    /\ ~running
    /\ subscriptions = 0
    /\ next_id = 2


\* C35: a step of convert() changes the cache only when it ends the call with a result
\* (a hit's promotion, a miss's store), and a call that has returned raises nothing
\* afterwards; so a call that raises (rasterizer failure, timeout, size limit) has added,
\* replaced, evicted and reordered nothing.
C35_RaisingCallLeavesCache ==
    [][/\ (cv' # cv /\ cache' # cache) =>
            /\ cv'.pc = "done"
            /\ cv'.error = ""
            /\ cv.pc \in {"lookup", "store"}
       /\ (cv.pc = "done" /\ cv' # cv) => calls' = calls + 1
       /\ (cv' # cv /\ cv'.pc = "raised") => (cache' = cache /\ ~cv'.hit)]_vars

\* C35 witness: the first call stored its result; the second call, for other settings,
\* raised and the stored entry is still the only one.
C35_Witness ==
    /\ calls = 2
    /\ cv.pc = "raised"
    /\ cv.error # ""
    /\ cache.on
    /\ Len(cache.data) = 1
    /\ cache.data[1][1] # cv.cache_key


(***************************************************************************)
(* Claims about the rasterizer's arguments and the bitmap payload.         *)
(***************************************************************************)
ArgFlags(args) == {args[i][1] : i \in 1..Len(args)}

\* C37: the argument list has the zoom flag only for a capability set with neither width
\* nor height, and never has the zoom flag together with a width or height flag.
C37_ZoomOnlyWithoutWidthHeight ==
    fcall.fn = "render_args" =>
        LET c == fcall.arg[1]
            flags == ArgFlags(fcall.ret)
        IN /\ "--zoom" \in flags => ("width" \notin c /\ "height" \notin c)
           /\ ~("--zoom" \in flags /\ ("--width" \in flags \/ "--height" \in flags))

DibBuilt == fcall.fn = "dibv5_payload" /\ Len(fcall.ret) = 2
DibConstants(hdr) ==
    /\ hdr.bV5Planes = 1
    /\ hdr.bV5BitCount = 32
    /\ hdr.bV5Compression = 3
    /\ hdr.bV5RedMask = <<255, 0>>
    /\ hdr.bV5GreenMask = <<0, 65280>>
    /\ hdr.bV5BlueMask = <<0, 255>>
    /\ hdr.bV5AlphaMask = <<65280, 0>>
    /\ hdr.bV5CSType = <<29522, 18242>>

=============================================================================
